---------------------------- MODULE Spec2Model ----------------------------
(***************************************************************************)
(* Model of the simulation core of todoso (src/main.c, second revision,    *)
(* lines 836-2055): tiles and their flip timers, the guards' behaviour     *)
(* (move_actors), A* path search, ray-cast sight and the per-frame step    *)
(* game().                                                                 *)
(*                                                                         *)
(* Numbers.  The C ints are modelled as integers.  The doubles of the      *)
(* code (cos, sin, atan2, sqrt) are modelled as exact reals taken from a   *)
(* sine table with 8 decimals; every conversion double -> int truncates    *)
(* toward zero as in C.  An assert() that fails aborts the program: the    *)
(* operators return a record with a field failed, and the step that runs   *)
(* into it sets the variable failed and nothing else.                      *)
(***************************************************************************)
EXTENDS Integers, Sequences, FiniteSets, TLC

VARIABLES
    level,      \* Level: [width, height, tiles]
    frame,      \* main(): the frame number the next game() call receives
    player,     \* Actor
    actors,     \* ActorList: sequence of Actor
    actions,    \* main(): actions[], the set of actions currently held
    marks,      \* MarkList filled by the last game() call
    failed,     \* TRUE once an assert() has failed (the program aborted)
    obs,        \* what the last game() call did (per guard and for tiles)
    hist,       \* history of tile triggers and toggles
    input,      \* the key events SDL_PollEvent() has yet to deliver
    search,     \* a_star(): its local state, one loop iteration per step
    sight       \* compute_sight(): the Sight table and the circle walk

vars == <<level, frame, player, actors, actions, marks, failed, obs, hist,
          input, search, sight>>

---------------------------------------------------------------------------
(* Program constants *)

TILE_SIZE == 3200
ACTOR_TURN == 3
ACTOR_STEP == 300
ACTOR_FOV == 180
PLAYER_TURN == 6
PLAYER_STEP == 400
GIVE_UP_DELAY == 60
TRIES == 10
ACTOR_R == 1500
MARK_MAX == 100
DOOR_TIME == 10

---------------------------------------------------------------------------
(* Integer helpers for C arithmetic *)

Abs(n) == IF n < 0 THEN -n ELSE n

Sgn(n) == IF n > 0 THEN 1 ELSE IF n < 0 THEN -1 ELSE 0

\* C integer division (truncates toward zero), b > 0
CDiv(a, b) == IF a >= 0 THEN a \div b ELSE -((-a) \div b)

\* C remainder (sign of the dividend), b > 0
CRem(a, b) == a - b * CDiv(a, b)

pc(tile_coord) == tile_coord * TILE_SIZE + TILE_SIZE \div 2

pc_corner(tile_coord) == tile_coord * TILE_SIZE

tc(pixel_coord) == CDiv(pixel_coord, TILE_SIZE)

clamp(number, lower, upper) ==
    IF number < lower THEN lower
    ELSE IF number > upper THEN upper
    ELSE number

---------------------------------------------------------------------------
(* Trigonometry: sin and cos of whole degrees, scaled by 10^8 *)

SinTab == <<
     0, 1745241, 3489950, 5233596, 6975647, 8715574, 10452846,
     12186934, 13917310, 15643447, 17364818, 19080900, 20791169, 22495105,
     24192190, 25881905, 27563736, 29237170, 30901699, 32556815, 34202014,
     35836795, 37460659, 39073113, 40673664, 42261826, 43837115, 45399050,
     46947156, 48480962, 50000000, 51503807, 52991926, 54463904, 55919290,
     57357644, 58778525, 60181502, 61566148, 62932039, 64278761, 65605903,
     66913061, 68199836, 69465837, 70710678, 71933980, 73135370, 74314483,
     75470958, 76604444, 77714596, 78801075, 79863551, 80901699, 81915204,
     82903757, 83867057, 84804810, 85716730, 86602540, 87461971, 88294759,
     89100652, 89879405, 90630779, 91354546, 92050485, 92718385, 93358043,
     93969262, 94551858, 95105652, 95630476, 96126170, 96592583, 97029573,
     97437006, 97814760, 98162718, 98480775, 98768834, 99026807, 99254615,
     99452190, 99619470, 99756405, 99862953, 99939083, 99984770, 100000000 >>

Sin(deg) ==
    LET a == deg % 360
        q == IF a <= 90 THEN a
             ELSE IF a <= 180 THEN 180 - a
             ELSE IF a <= 270 THEN a - 180
             ELSE 360 - a
    IN (IF a <= 180 THEN 1 ELSE -1) * SinTab[q + 1]

Cos(deg) == Sin(deg + 90)

\* floor(n * c / 10^8) for a table value c, without leaving 32 bits
FloorMul(n, c) ==
    (n * (c \div 10000) + (n * (c % 10000)) \div 10000) \div 10000

\* (int)(x + n * c / 10^8): the C conversion truncates toward zero
TruncAdd(x, n, c) ==
    LET f == x + FloorMul(n, c) IN
    IF f >= 0 THEN f ELSE x - FloorMul(-n, c)

\* n * c as the pair <<high, low>> in base 10^4 (n >= 0)
Mul2(n, c) ==
    <<n * (c \div 10000) + (n * (c % 10000)) \div 10000,
      (n * (c % 10000)) % 10000>>

Geq2(p, q) == p[1] > q[1] \/ (p[1] = q[1] /\ p[2] >= q[2])

\* floor of atan(ay / ax) in degrees, for ax > 0 and ay > 0: the largest
\* k in 0..89 with tan(k) <= ay / ax
AtanFloor(ay, ax) ==
    CHOOSE k \in 0..89 :
        /\ Geq2(Mul2(ay, Cos(k)), Mul2(ax, Sin(k)))
        /\ k < 89 => ~Geq2(Mul2(ay, Cos(k + 1)), Mul2(ax, Sin(k + 1)))

\* int angle_2 = atan2(y, x) / M_PI * 180.0; if (angle_2 < 0) angle_2 += 360;
AtanDeg(y, x) ==
    IF y = 0 THEN (IF x >= 0 THEN 0 ELSE 180)
    ELSE
      LET ay == Abs(y)
          ax == Abs(x)
          Quadrant(k) ==
            LET exact == x # 0 /\ Mul2(ay, Cos(k)) = Mul2(ax, Sin(k))
                Mirror(m) == IF y > 0 THEN m ELSE (360 - m) % 360
            IN Mirror(IF x >= 0 THEN k
                      ELSE IF exact THEN 180 - k ELSE 179 - k)
      IN Quadrant(IF x = 0 THEN 90 ELSE AtanFloor(ay, ax))


---------------------------------------------------------------------------
(* Tiles and levels *)

\* load_level(): the Tile one character of the level file becomes
TileOf(c) ==
    LET t == [code |-> 0, active |-> FALSE, activation_time |-> -1,
              flips_in |-> -1, passable |-> "tile_never",
              see_through |-> "tile_never"]
    IN CASE c = " " -> [t EXCEPT !.passable = "tile_always",
                                 !.see_through = "tile_always"]
         [] c = "#" -> [t EXCEPT !.code = 1]
         [] c = "+" -> [t EXCEPT !.code = 2, !.activation_time = DOOR_TIME,
                                 !.passable = "tile_if_active",
                                 !.see_through = "tile_if_active"]
         [] OTHER   -> t

\* load_level(): rows is the file, one sequence of characters per line
LoadLevel(rows) ==
    LET w == Len(rows[1])
        h == Len(rows)
    IN [width |-> w, height |-> h,
        tiles |-> [i \in 1..(w * h) |->
                     TileOf(rows[((i - 1) \div w) + 1][((i - 1) % w) + 1])]]

\* the bounds assertions of tile_at()
InLevel(lv, x, y) == x >= 0 /\ x < lv.width /\ y >= 0 /\ y < lv.height

\* tile_at(): index of the tile in level->tiles (1-based)
TileIndex(lv, x, y) == y * lv.width + x + 1

tile_at(lv, x, y) == lv.tiles[TileIndex(lv, x, y)]

\* tile_always / tile_never / tile_if_active
TileFn(fn, tile) ==
    CASE fn = "tile_always" -> TRUE
      [] fn = "tile_never" -> FALSE
      [] fn = "tile_if_active" -> tile.active

passable(lv, x, y) ==
    LET tile == tile_at(lv, x, y) IN TileFn(tile.passable, tile)

see_through(lv, x, y) ==
    LET tile == tile_at(lv, x, y) IN TileFn(tile.see_through, tile)

\* can_be_activated() without its test of the running countdown
can_be_activated_any_time(lv, x, y) ==
    tile_at(lv, x, y).activation_time >= 0

can_be_activated(lv, x, y) ==
    LET tile == tile_at(lv, x, y)
    IN tile.activation_time >= 0 /\ tile.flips_in < 0

\* check_tiles(): one tile
CheckTile(tile) ==
    IF tile.flips_in > 0 THEN [tile EXCEPT !.flips_in = tile.flips_in - 1]
    ELSE IF tile.flips_in = 0
         THEN [tile EXCEPT !.flips_in = -1, !.active = ~tile.active]
    ELSE tile

check_tiles(lv) ==
    [lv EXCEPT !.tiles = [i \in DOMAIN lv.tiles |-> CheckTile(lv.tiles[i])]]

---------------------------------------------------------------------------
(* Actors and marks *)

init_actor(x, y, angle, radius) ==
    [x |-> x, y |-> y, angle |-> angle, radius |-> radius,
     base_x |-> x, base_y |-> y, base_angle |-> angle,
     tx |-> -1, ty |-> -1, t_angle |-> -1, give_up_at |-> -1]

\* turn(): the new angle
TurnAngle(angle, degrees) ==
    LET r == CRem(degrees + angle, 360)
    IN IF r < 0 THEN 360 + r ELSE r

turn(actor, degrees) ==
    [actor EXCEPT !.angle = TurnAngle(actor.angle, degrees)]

move(actor, step) ==
    [actor EXCEPT !.x = TruncAdd(actor.x, step, Cos(actor.angle)),
                  !.y = TruncAdd(actor.y, -step, Sin(actor.angle))]

\* mark() storing the tile of a pixel position
mark_tile(list, reason, x, y) ==
    IF Len(list) = MARK_MAX THEN list
    ELSE Append(list, [reason |-> reason, x |-> tc(x), y |-> tc(y)])

\* mark() dropping the mark one call too late
mark_late(list, reason, x, y) ==
    IF Len(list) > MARK_MAX THEN list
    ELSE Append(list, [reason |-> reason, x |-> x, y |-> y])

\* mark(): a full list drops the mark
mark(list, reason, x, y) ==
    IF Len(list) = MARK_MAX THEN list
    ELSE Append(list, [reason |-> reason, x |-> x, y |-> y])

---------------------------------------------------------------------------
(* bresenham() *)

\* The cells on which bresenham() calls its callback as long as the
\* callback answers true: from (x0, y0) up to, not including, (x1, y1).
RECURSIVE BresenhamWalk(_, _, _, _, _, _, _, _, _)
BresenhamWalk(x0, y0, x1, y1, dx, dy, sx, sy, err) ==
    IF x0 = x1 /\ y0 = y1 THEN << >>
    ELSE LET e2 == 2 * err
             stepx == e2 > -dy
             stepy == e2 < dx
             nx == IF stepx THEN x0 + sx ELSE x0
             ny == IF stepy THEN y0 + sy ELSE y0
             nerr == err - (IF stepx THEN dy ELSE 0)
                         + (IF stepy THEN dx ELSE 0)
         IN <<<<x0, y0>>>> \o
            BresenhamWalk(nx, ny, x1, y1, dx, dy, sx, sy, nerr)

BresenhamCells(x0, y0, x1, y1) ==
    LET dx == Abs(x1 - x0)
        dy == Abs(y1 - y0)
        sx == IF x0 < x1 THEN 1 ELSE -1
        sy == IF y0 < y1 THEN 1 ELSE -1
    IN BresenhamWalk(x0, y0, x1, y1, dx, dy, sx, sy, dx - dy)

---------------------------------------------------------------------------
(* line_of_sight() *)

\* Index of the first cell of a ray at which a callback that asks
\* see_through() stops the ray: the cell is outside the level (tile_at()
\* asserts) or is not see-through.  0 when the ray runs to its end.
FirstBlocked(lv, cells) ==
    LET stops == {i \in 1..Len(cells) :
                    \/ ~InLevel(lv, cells[i][1], cells[i][2])
                    \/ ~see_through(lv, cells[i][1], cells[i][2])}
    IN IF stops = {} THEN 0
       ELSE CHOOSE i \in stops : \A j \in stops : i <= j

line_of_sight(lv, x1, y1, x2, y2) ==
    LET Ray(cells) ==
          LET Stop(i) ==
                [failed |-> i > 0 /\ ~InLevel(lv, cells[i][1], cells[i][2]),
                 result |-> i = 0]
          IN Stop(FirstBlocked(lv, cells))
    IN Ray(BresenhamCells(x1, y1, x2, y2))

---------------------------------------------------------------------------
(* Path search: neighbors() and a_star() *)

find_path_h(x1, y1, x2, y2) ==
    (x2 - x1) * (x2 - x1) + (y2 - y1) * (y2 - y1)

\* neighbors(): coords[], indexed from 1
Coords == << <<0, -1>>, <<-1, 0>>, <<1, 0>>, <<0, 1>>,
             <<-1, -1>>, <<1, -1>>, <<-1, 1>>, <<1, 1>> >>

\* neighbors(): "Drop nonexistent tiles" for the four side tiles
SideExists(lv, x, y) ==
    << y > 0, x > 0, x < lv.width, y < lv.height >>

\* the corner rule of neighbors() with one open side being enough
corner_open_either(a, b) == a \/ b

\* neighbors(): p[4] = p[0] && p[1] and so on: a corner tile is kept only
\* if both side tiles next to it are
corner_open(a, b) == a /\ b

\* neighbors(): failed when a passable() call asks for a tile outside the
\* level; list is the returned list, head first (add_point() prepends, so
\* the last index comes first).
neighbors(lv, x, y) ==
    LET ex == SideExists(lv, x, y)
        cell(i) == <<x + Coords[i][1], y + Coords[i][2]>>
        in(i) == InLevel(lv, cell(i)[1], cell(i)[2])
        sidefail == \E i \in 1..4 : ex[i] /\ ~in(i)
        side(i) == ex[i] /\ passable(lv, cell(i)[1], cell(i)[2])
        corner(i) == CASE i = 5 -> corner_open(side(1), side(2))
                       [] i = 6 -> corner_open(side(1), side(3))
                       [] i = 7 -> corner_open(side(2), side(4))
                       [] i = 8 -> corner_open(side(3), side(4))
        cornerfail == \E i \in 5..8 : corner(i) /\ ~in(i)
        p(i) == IF i <= 4 THEN side(i)
                ELSE corner(i) /\ passable(lv, cell(i)[1], cell(i)[2])
        RECURSIVE build(_)
        build(i) == IF i = 0 THEN << >>
                    ELSE (IF p(i) THEN <<cell(i)>> ELSE << >>) \o build(i - 1)
    IN IF sidefail THEN [failed |-> TRUE, list |-> << >>]
       ELSE IF cornerfail THEN [failed |-> TRUE, list |-> << >>]
       ELSE [failed |-> FALSE, list |-> build(8)]

has_point(list, c) == \E i \in 1..Len(list) : list[i] = c

\* remove_point(): drops the first occurrence
remove_point(list, c) ==
    IF ~has_point(list, c) THEN list
    ELSE LET k == CHOOSE i \in 1..Len(list) :
                     list[i] = c /\ \A j \in 1..(i - 1) : list[j] # c
         IN SubSeq(list, 1, k - 1) \o SubSeq(list, k + 1, Len(list))

\* a_star(): the locals before the loop.  data holds only the entries of
\* data[][] that have been written.
AStarInit(x1, y1, x2, y2) ==
    [status |-> "run",
     open |-> << <<x1, y1>> >>,
     closed |-> {},
     data |-> [c \in {<<x1, y1>>} |->
                 [g |-> 0, f |-> find_path_h(x1, y1, x2, y2), from |-> << >>]],
     path |-> << >>,
     steps |-> 0]

\* a_star(): the open point with the least f, the first one in list order
PickCur(open, data) ==
    LET k == CHOOSE i \in 1..Len(open) :
                /\ \A j \in 1..Len(open) : data[open[j]].f >= data[open[i]].f
                /\ \A j \in 1..(i - 1) : data[open[j]].f > data[open[i]].f
    IN open[k]

\* a walk back that does not stop at the start
RECURSIVE PathBackPastStart(_, _, _, _)
PathBackPastStart(data, c, start, n) ==
    IF n = 0 \/ c = start THEN << <<-1, -1>> >>
    ELSE PathBackPastStart(data, data[c].from, start, n - 1) \o <<c>>

\* a_star(): the walk back along from_x, from_y; headed by <<-1, -1>> if
\* it does not reach the start within n links
RECURSIVE PathBack(_, _, _, _)
PathBack(data, c, start, n) ==
    IF c = start THEN <<c>>
    ELSE IF n = 0 THEN << <<-1, -1>> >>
    ELSE PathBack(data, data[c].from, start, n - 1) \o <<c>>

\* a_star(): the body of the for loop over the neighbours, for one
\* neighbour i of the current point c
RelaxOne(st, c, i, x2, y2) ==
    LET tg == st.data[c].g + find_path_h(c[1], c[2], i[1], i[2])
        inopen == has_point(st.open, i)
    IN IF i \in st.closed /\ tg > st.data[i].g THEN st
       ELSE IF ~inopen \/ tg < st.data[i].g
       THEN [st EXCEPT
               !.data = [d \in (DOMAIN st.data) \cup {i} |->
                           IF d = i
                           THEN [g |-> tg,
                                 f |-> tg + find_path_h(i[1], i[2], x2, y2),
                                 from |-> c]
                           ELSE st.data[d]],
               !.open = IF inopen THEN st.open ELSE <<i>> \o st.open]
       ELSE st

RECURSIVE Relax(_, _, _, _, _)
Relax(st, c, list, x2, y2) ==
    IF list = << >> THEN st
    ELSE Relax(RelaxOne(st, c, Head(list), x2, y2), c, Tail(list), x2, y2)

\* a_star(): one iteration of while (open != NULL)
AStarStep(lv, st, x1, y1, x2, y2) ==
    IF st.open = << >> THEN [st EXCEPT !.status = "none"]
    ELSE
      LET c == PickCur(st.open, st.data) IN
      IF c = <<x2, y2>>
      THEN LET path == PathBack(st.data, c, <<x1, y1>>,
                                lv.width * lv.height)
           IN [st EXCEPT !.status = IF path[1] = <<-1, -1>> THEN "loop"
                                    ELSE "found",
                         !.path = path]
      ELSE
        LET n == neighbors(lv, c[1], c[2])
            st1 == [st EXCEPT !.open = remove_point(st.open, c),
                              !.closed = st.closed \cup {c},
                              !.steps = st.steps + 1]
        IN IF n.failed THEN [st1 EXCEPT !.status = "failed"]
           ELSE Relax(st1, c, n.list, x2, y2)

\* Bound on the iterations of a_star() the model follows
MaxSearchSteps == 200

RECURSIVE AStarRun(_, _, _, _, _, _)
AStarRun(lv, st, x1, y1, x2, y2) ==
    IF st.status # "run" THEN st
    ELSE IF st.steps >= MaxSearchSteps THEN [st EXCEPT !.status = "loop"]
    ELSE AStarRun(lv, AStarStep(lv, st, x1, y1, x2, y2), x1, y1, x2, y2)

\* a_star(): status "found" (path, start first), "none" (NULL),
\* "failed" (an assertion failed) or "loop" (no result within the bound)
a_star(lv, x1, y1, x2, y2) ==
    AStarRun(lv, AStarInit(x1, y1, x2, y2), x1, y1, x2, y2)

RECURSIVE MarkPath(_, _)
MarkPath(list, path) ==
    IF path = << >> THEN list
    ELSE MarkPath(mark(list, "MARK_ACTOR_PATH", Head(path)[1], Head(path)[2]),
                  Tail(path))

\* find_path(): the search result and the mark list with the path marked
find_path(list, lv, x1, y1, x2, y2) ==
    LET Result(r) ==
          [status |-> r.status, path |-> r.path,
           marks |-> IF r.status = "found" THEN MarkPath(list, r.path)
                     ELSE list]
    IN Result(a_star(lv, x1, y1, x2, y2))

---------------------------------------------------------------------------
(* Guards: seek_target() and move_actors() *)

RECURSIVE Newton(_, _)
Newton(n, x) ==
    LET y == (x + n \div x) \div 2
    IN IF y >= x THEN x ELSE Newton(n, y)

\* floor(sqrt(n)), n >= 0
Isqrt(n) == IF n = 0 THEN 0 ELSE Newton(n, 46340)

\* d(): round(sqrt(dx^2 + dy^2))
d(x1, y1, x2, y2) ==
    LET n == (x2 - x1) * (x2 - x1) + (y2 - y1) * (y2 - y1)
        s == Isqrt(n)
    IN IF n - s * s > s THEN s + 1 ELSE s

angle_dir(angle) ==
    IF angle < -180 THEN angle + 360
    ELSE IF angle > 180 THEN angle - 360
    ELSE angle

angle_diff(a, b) == angle_dir(b - a)

angle_vector_diff(angle, dx, dy) == angle_diff(angle, AtanDeg(-dy, dx))

\* seek_target(): what it does once find_path() has returned path
SeekAlong(actor, path, x, y, min_d) ==
    LET target == IF Len(path) > 1 THEN path[2] ELSE path[1]
        nx == pc(target[1])
        ny == pc(target[2])
        Steer(diff, close) ==
          LET go == Abs(diff) < 90 /\ ~close
              Step(a1) ==
                [actor |-> IF go THEN move(a1, ACTOR_STEP) ELSE a1,
                 found |-> ~(Abs(diff) > 10) /\ ~go]
          IN Step(IF Abs(diff) > 30
                  THEN turn(actor, Sgn(diff) * 2 * ACTOR_TURN)
                  ELSE IF Abs(diff) > 10
                  THEN turn(actor, Sgn(diff) * ACTOR_TURN)
                  ELSE actor)
    IN Steer(angle_vector_diff(actor.angle, nx - actor.x, ny - actor.y),
             d(actor.x, actor.y, x, y) < min_d + ACTOR_STEP)

\* seek_target() taking a step although find_path() returned NULL
SeekNowhereStepping(actor, list) ==
    [status |-> "ok", actor |-> move(actor, ACTOR_STEP), found |-> TRUE,
     nopath |-> TRUE, marks |-> list]

\* seek_target(): when find_path() returns NULL the body of
\* if (path != NULL) is skipped and found stays true
SeekNowhere(actor, list) ==
    [status |-> "ok", actor |-> actor, found |-> TRUE,
     nopath |-> TRUE, marks |-> list]

\* seek_target()
seek_target(list, lv, actor, x, y, min_d) ==
    LET sx == tc(actor.x)
        sy == tc(actor.y)
        Along(fp) ==
          IF fp.status = "found"
          THEN LET Sought(r) ==
                     [status |-> "ok", actor |-> r.actor, found |-> r.found,
                      nopath |-> FALSE, marks |-> fp.marks]
               IN Sought(SeekAlong(actor, fp.path, x, y, min_d))
          ELSE IF fp.status = "none"
          THEN SeekNowhere(actor, fp.marks)
          ELSE [status |-> fp.status, actor |-> actor, found |-> FALSE,
                nopath |-> FALSE, marks |-> fp.marks]
    IN Along(IF InLevel(lv, sx, sy)
             THEN find_path(list, lv, sx, sy, tc(x), tc(y))
             ELSE [status |-> "failed", path |-> << >>, marks |-> list])

\* should_give_up() with the deadline tick itself excluded
should_give_up_late(fr, actor) ==
    actor.give_up_at >= 0 /\ actor.give_up_at < fr

should_give_up(fr, actor) ==
    actor.give_up_at >= 0 /\ actor.give_up_at <= fr

return_to_base(actor) ==
    [actor EXCEPT !.tx = actor.base_x, !.ty = actor.base_y,
                  !.t_angle = actor.base_angle, !.give_up_at = -1]

has_target(actor) == actor.tx # -1 /\ actor.ty # -1

is_chasing(actor) ==
    has_target(actor) /\
    (actor.tx # actor.base_x \/ actor.ty # actor.base_y)

\* move_actors(): does the guard see the player?  (FOV, then the ray)
Perceive(lv, actor, pl) ==
    LET InView(infov) ==
          LET Seen(ray) == [failed |-> ray.failed,
                            los |-> infov /\ ray.result]
          IN Seen(IF infov
                  THEN line_of_sight(lv, tc(actor.x), tc(actor.y),
                                     tc(pl.x), tc(pl.y))
                  ELSE [failed |-> FALSE, result |-> FALSE])
    IN InView(2 * Abs(angle_vector_diff(actor.angle, pl.x - actor.x,
                                        pl.y - actor.y)) < ACTOR_FOV)

\* the "if (los)" of move_actors() without the reset of the deadline
AcquireKeepingDeadline(actor, pl) ==
    [actor EXCEPT !.tx = pl.x, !.ty = pl.y]

\* move_actors(): "if (los)": the player's position becomes the target
Acquire(actor, pl) ==
    [actor EXCEPT !.tx = pl.x, !.ty = pl.y, !.give_up_at = -1]

\* the "if (found)" of move_actors() without the reset of the target
ArriveKeepingTarget(fr, actor) ==
    IF actor.tx # actor.base_x /\ actor.ty # actor.base_y
    THEN [actor EXCEPT !.give_up_at = fr + GIVE_UP_DELAY]
    ELSE actor

\* move_actors(): "if (found)" after seek_target()
Arrive(fr, actor) ==
    LET a == IF actor.tx # actor.base_x /\ actor.ty # actor.base_y
             THEN [actor EXCEPT !.give_up_at = fr + GIVE_UP_DELAY]
             ELSE actor
    IN [a EXCEPT !.tx = -1, !.ty = -1]

\* the idle turn of move_actors() without its test of t_angle
ReorientWithoutGoal(actor) ==
    IF actor.tx = -1 /\ actor.ty = -1
    THEN turn(actor, clamp(angle_diff(actor.angle, actor.t_angle),
                           -ACTOR_TURN, ACTOR_TURN))
    ELSE actor

\* the idle turn of move_actors() at twice the turn rate
ReorientFast(actor) ==
    IF actor.tx = -1 /\ actor.ty = -1 /\ actor.t_angle # -1
    THEN LET ad == angle_diff(actor.angle, actor.t_angle)
             a == IF ad = 0 THEN [actor EXCEPT !.t_angle = -1] ELSE actor
         IN turn(a, clamp(ad, -2 * ACTOR_TURN, 2 * ACTOR_TURN))
    ELSE actor

\* move_actors(): the idle turn toward t_angle
Reorient(actor) ==
    IF actor.tx = -1 /\ actor.ty = -1 /\ actor.t_angle # -1
    THEN LET ad == angle_diff(actor.angle, actor.t_angle)
             a == IF ad = 0 THEN [actor EXCEPT !.t_angle = -1] ELSE actor
         IN turn(a, clamp(ad, -ACTOR_TURN, ACTOR_TURN))
    ELSE actor

\* move_actors(): the loop body for one guard.  The result carries the
\* guard, the mark list and a record of what happened on the way.
MoveActor(fr, list, lv, actor, pl) ==
    LET ax == actor.x
        ay == actor.y
        Seen(see) ==
          LET los == see.los
              m1 == IF los THEN mark(list, "MARK_ACTOR_SPOTTED", ax,
                                     ay - actor.radius)
                    ELSE list
              a1 == IF los THEN Acquire(actor, pl) ELSE actor
              m2 == IF a1.give_up_at # -1
                    THEN mark(m1, "MARK_ACTOR_LOST", ax, ay - actor.radius)
                    ELSE m1
              gave_up == should_give_up(fr, a1)
              Goal(a2) ==
                LET seeks == a2.tx >= 0 /\ a2.ty >= 0
                    Sought(sk) ==
                      LET Done(a4) ==
                            [status |-> IF see.failed THEN "failed"
                                        ELSE sk.status,
                             actor |-> a4,
                             marks |-> IF ~los /\ is_chasing(a4)
                                       THEN mark(sk.marks,
                                                 "MARK_ACTOR_CHASING", ax,
                                                 ay - actor.radius)
                                       ELSE sk.marks,
                             obs |-> [los |-> los, gave_up |-> gave_up,
                                      t_angle |-> a2.t_angle,
                                      seeks |-> seeks,
                                      seek_x |-> a2.tx, seek_y |-> a2.ty,
                                      found |-> seeks /\ sk.found,
                                      nopath |-> sk.nopath,
                                      px |-> pl.x, py |-> pl.y,
                                      before |-> actor, after |-> a4,
                                      seeker |-> a2, sought |-> sk.actor,
                                      fr |-> fr]]
                      IN Done(Reorient(IF seeks /\ sk.found
                                       THEN Arrive(fr, sk.actor)
                                       ELSE sk.actor))
                IN Sought(IF seeks /\ ~see.failed
                          THEN seek_target(m2, lv, a2, a2.tx, a2.ty,
                                           a2.radius +
                                             (IF los THEN pl.radius ELSE 0))
                          ELSE [status |-> "ok", actor |-> a2,
                                found |-> FALSE, nopath |-> FALSE,
                                marks |-> m2])
          IN Goal(IF gave_up THEN return_to_base(a1) ELSE a1)
    IN Seen(Perceive(lv, actor, pl))

\* move_actors(): the guards in list order, from index i on
RECURSIVE MoveActorsFrom(_, _, _, _, _, _, _)
MoveActorsFrom(i, fr, list, as, lv, pl, os) ==
    IF i > Len(as)
    THEN [status |-> "ok", actors |-> as, marks |-> list, obs |-> os]
    ELSE LET Moved(r) ==
               IF r.status # "ok"
               THEN [status |-> r.status, actors |-> as, marks |-> r.marks,
                     obs |-> os]
               ELSE MoveActorsFrom(i + 1, fr, r.marks,
                                   [as EXCEPT ![i] = r.actor], lv, pl,
                                   Append(os, r.obs))
         IN Moved(MoveActor(fr, list, lv, as[i], pl))

move_actors(fr, list, as, lv, pl) ==
    MoveActorsFrom(1, fr, list, as, lv, pl, << >>)

---------------------------------------------------------------------------
(* Collisions.  The double arithmetic of the pushes (sqrt(), quotients and
   the rounding to int) is modelled exactly, by comparisons of whole
   numbers. *)

\* Whole numbers beyond the range of the model's integers, for the exact
\* comparisons that stand for the double arithmetic of the pushes: a number
\* is the sequence of its digits to the base 10000, lowest digit first.

RECURSIVE BigNorm(_, _)
BigNorm(s, carry) ==
    IF s = << >>
    THEN IF carry = 0 THEN << >>
         ELSE <<carry % 10000>> \o BigNorm(<< >>, carry \div 10000)
    ELSE LET v == s[1] + carry
         IN <<v % 10000>> \o BigNorm(Tail(s), v \div 10000)

Big(n) == BigNorm(<<n>>, 0)

BigDigit(a, i) == IF i \in 1..Len(a) THEN a[i] ELSE 0

RECURSIVE BigConv(_, _, _, _)
BigConv(a, b, k, i) ==
    IF i > Len(a) THEN 0
    ELSE a[i] * BigDigit(b, k + 1 - i) + BigConv(a, b, k, i + 1)

BigMul(a, b) ==
    BigNorm([k \in 1..(Len(a) + Len(b)) |-> BigConv(a, b, k, 1)], 0)

BigAdd(a, b) ==
    BigNorm([k \in 1..(IF Len(a) > Len(b) THEN Len(a) ELSE Len(b)) |->
               BigDigit(a, k) + BigDigit(b, k)], 0)

\* a <= b, decided at the highest digit in which they differ
RECURSIVE BigLeqFrom(_, _, _)
BigLeqFrom(a, b, i) ==
    IF i = 0 THEN TRUE
    ELSE IF BigDigit(a, i) # BigDigit(b, i)
    THEN BigDigit(a, i) < BigDigit(b, i)
    ELSE BigLeqFrom(a, b, i - 1)

BigLeq(a, b) ==
    BigLeqFrom(a, b, IF Len(a) > Len(b) THEN Len(a) ELSE Len(b))

BigSq(a) == BigMul(a, a)

\* the largest m in lo..(hi - 1) with P(m), for P true at lo and false from
\* some m on
RECURSIVE Bisect(_, _, _)
Bisect(P(_), lo, hi) ==
    IF hi - lo <= 1 THEN lo
    ELSE LET mid == (lo + hi) \div 2
         IN IF P(mid) THEN Bisect(P, mid, hi) ELSE Bisect(P, lo, mid)

\* the rounding of the pushes stopping one unit short
RoundShort(whole, sgn) == sgn * (whole - 1)

\* round(push + 0.5 * sign(push)) for a push of magnitude floor + fraction
\* in the direction sgn: one unit more than the whole part
RoundAway(whole, sgn) == sgn * (whole + 1)

\* find_voronoi() giving a tie of the two offsets to the left or right edge
find_voronoi_tie_x(tx, ty, ax, ay) ==
    LET left == pc_corner(tx)
        right == left + TILE_SIZE
        top == pc_corner(ty)
        bottom == top + TILE_SIZE
        in_left == ax < left
        in_top == ay < top
        in_right == ax > right
        in_bottom == ay > bottom
        dx == ax - pc(tx)
        dy == ay - pc(ty)
    IN IF in_top /\ in_left THEN 1
       ELSE IF in_top /\ in_right THEN 3
       ELSE IF in_bottom /\ in_left THEN 7
       ELSE IF in_bottom /\ in_right THEN 9
       ELSE IF Abs(dx) >= Abs(dy) THEN (IF dx <= 0 THEN 4 ELSE 6)
       ELSE (IF dy <= 0 THEN 2 ELSE 8)

find_voronoi(tx, ty, ax, ay) ==
    LET left == pc_corner(tx)
        right == left + TILE_SIZE
        top == pc_corner(ty)
        bottom == top + TILE_SIZE
        in_left == ax < left
        in_top == ay < top
        in_right == ax > right
        in_bottom == ay > bottom
        dx == ax - pc(tx)
        dy == ay - pc(ty)
    IN IF in_top /\ in_left THEN 1
       ELSE IF in_top /\ in_right THEN 3
       ELSE IF in_bottom /\ in_left THEN 7
       ELSE IF in_bottom /\ in_right THEN 9
       ELSE IF Abs(dx) > Abs(dy) THEN (IF dx <= 0 THEN 4 ELSE 6)
       ELSE (IF dy <= 0 THEN 2 ELSE 8)

\* find_push() and the rounding of collide_level_actor() for a corner
\* region: <<ix, iy>>.  tpx, tpy: tile centre to actor; thwx, thwy: the
\* tile's half-width vector of that corner; r: the radius.  With n the
\* squared length of tp and q = n - tp.thw (positive in a corner region),
\* push_len = r + dp - tp_len is positive iff r * r * n > q * q, and the
\* component along a = |tpx| is a * (r * sqrt(n) - q) / n, whose whole part
\* is the largest m with (m * n + a * q)^2 <= a^2 * r^2 * n.
find_push(tpx, tpy, thwx, thwy, r) ==
    LET n == tpx * tpx + tpy * tpy
        q == n - (tpx * thwx + tpy * thwy)
        positive == ~BigLeq(BigMul(BigSq(Big(r)), Big(n)), BigSq(Big(q)))
        Whole(a) ==
          LET P(m) == BigLeq(BigSq(BigAdd(BigMul(Big(m), Big(n)),
                                          BigMul(Big(a), Big(q)))),
                             BigMul(BigSq(BigMul(Big(a), Big(r))), Big(n)))
          IN Bisect(P, 0, r + 1)
    IN IF ~positive THEN <<0, 0>>
       ELSE <<IF tpx = 0 THEN 0 ELSE RoundAway(Whole(Abs(tpx)), Sgn(tpx)),
              IF tpy = 0 THEN 0 ELSE RoundAway(Whole(Abs(tpy)), Sgn(tpy))>>

\* collide_level_actor(): the push <<ix, iy>> out of the blocking tile
\* (x, y), and whether the sign assertion of the region holds
TilePush(actor, x, y) ==
    LET tcx == pc_corner(x)
        tcy == pc_corner(y)
        al == actor.x - actor.radius
        at == actor.y - actor.radius
        ar == actor.x + actor.radius
        ab == actor.y + actor.radius
        tpx == actor.x - pc(x)
        tpy == actor.y - pc(y)
        tr == TILE_SIZE \div 2
        edge(n) == RoundAway(Abs(n), Sgn(n))
        Region(voronoi) ==
          LET Pushed(push) ==
                [push |-> push,
                 asserted |->
                   CASE voronoi = 2 -> tcy - ab < 0
                     [] voronoi = 4 -> tcx - ar < 0
                     [] voronoi = 6 -> tcx + TILE_SIZE - al > 0
                     [] voronoi = 8 -> tcy + TILE_SIZE - at > 0
                     [] voronoi = 1 -> push[1] <= 0 /\ push[2] <= 0
                     [] voronoi = 3 -> push[1] >= 0 /\ push[2] <= 0
                     [] voronoi = 7 -> push[1] <= 0 /\ push[2] >= 0
                     [] voronoi = 9 -> push[1] >= 0 /\ push[2] >= 0,
                 voronoi |-> voronoi]
          IN Pushed(
               CASE voronoi = 2 -> <<0, edge(tcy - ab)>>
                 [] voronoi = 4 -> <<edge(tcx - ar), 0>>
                 [] voronoi = 6 -> <<edge(tcx + TILE_SIZE - al), 0>>
                 [] voronoi = 8 -> <<0, edge(tcy + TILE_SIZE - at)>>
                 [] OTHER ->
                      find_push(tpx, tpy,
                                IF voronoi \in {1, 7} THEN -tr ELSE tr,
                                IF voronoi \in {1, 3} THEN -tr ELSE tr,
                                actor.radius))
    IN Region(find_voronoi(x, y, actor.x, actor.y))

\* collide_level_actor(): the loop body for the tile (x, y)
CollideTile(lv, st, x, y) ==
    LET actor == st.actor
        tcx == pc_corner(x)
        tcy == pc_corner(y)
        al == actor.x - actor.radius
        at == actor.y - actor.radius
        ar == actor.x + actor.radius
        ab == actor.y + actor.radius
        apart == \/ ar <= tcx
                 \/ ab <= tcy
                 \/ al >= tcx + TILE_SIZE
                 \/ at >= tcy + TILE_SIZE
        Pushed(tp) ==
          IF ~tp.asserted THEN [st EXCEPT !.failed = TRUE]
          ELSE IF tp.push = <<0, 0>> THEN st
          ELSE [st EXCEPT !.actor.x = actor.x + tp.push[1],
                          !.actor.y = actor.y + tp.push[2],
                          !.moved = TRUE]
    IN IF apart THEN st
       ELSE IF ~InLevel(lv, x, y) THEN [st EXCEPT !.failed = TRUE]
       ELSE IF passable(lv, x, y) THEN st
       ELSE Pushed(TilePush(actor, x, y))

\* collide_level_actor(): the two for loops, row by row, over the w * h
\* tiles of the box that starts at (left, top); k counts them from 0
RECURSIVE CollideTiles(_, _, _, _, _, _, _)
CollideTiles(lv, st, left, top, w, h, k) ==
    IF st.failed \/ k >= w * h THEN st
    ELSE CollideTiles(lv,
                      CollideTile(lv, st, left + (k % w), top + (k \div w)),
                      left, top, w, h, k + 1)

collide_level_actor(lv, actor) ==
    LET left == tc(actor.x - actor.radius)
        right == tc(actor.x + actor.radius)
        top == tc(actor.y - actor.radius)
        bottom == tc(actor.y + actor.radius)
        st == [actor |-> actor, moved |-> FALSE, failed |-> FALSE]
    IN IF right < left \/ bottom < top THEN st
       ELSE CollideTiles(lv, st, left, top, right - left + 1,
                         bottom - top + 1, 0)

\* collide_actor_actor(): two actors on the same spot divide by a distance
\* of zero and convert NaN to int (undefined): failed
collide_actor_actor(a, b) ==
    LET dx == b.x - a.x
        dy == b.y - a.y
        reach == a.radius + b.radius
        n == dx * dx + dy * dy
        overlap == Abs(dx) < reach /\ Abs(dy) < reach /\ n < reach * reach
        \* the whole part of 0.5 * overlap * c / d_len: the largest m with
        \* n * (2 * m + c)^2 <= (c * reach)^2
        Whole(c) ==
          LET P(m) == BigLeq(BigMul(Big(n), BigSq(Big(2 * m + c))),
                             BigSq(Big(c * reach)))
          IN Bisect(P, 0, reach)
        Half(c) == IF c = 0 THEN 0 ELSE RoundAway(Whole(Abs(c)), Sgn(c))
        Pushed(kx, ky) ==
          [a |-> [a EXCEPT !.x = a.x - kx, !.y = a.y - ky],
           b |-> [b EXCEPT !.x = b.x + kx, !.y = b.y + ky],
           moved |-> TRUE, failed |-> FALSE]
    IN IF ~overlap THEN [a |-> a, b |-> b, moved |-> FALSE, failed |-> FALSE]
       ELSE IF n = 0 THEN [a |-> a, b |-> b, moved |-> TRUE, failed |-> TRUE]
       ELSE Pushed(Half(dx), Half(dy))

---------------------------------------------------------------------------
(* game() *)

\* game(): collide_level_actor() for the guards from index i on
RECURSIVE LevelPass(_, _, _)
LevelPass(lv, st, i) ==
    IF st.failed \/ i > Len(st.actors) THEN st
    ELSE LET Collided(r) ==
               LevelPass(lv, [st EXCEPT !.actors[i] = r.actor,
                                        !.moved = st.moved \/ r.moved,
                                        !.failed = r.failed], i + 1)
         IN Collided(collide_level_actor(lv, st.actors[i]))

\* game(): collide_actor_actor(player, guard i) for the guards from i on
RECURSIVE PlayerPass(_, _)
PlayerPass(st, i) ==
    IF st.failed \/ i > Len(st.actors) THEN st
    ELSE LET Collided(r) ==
               PlayerPass([st EXCEPT !.player = r.a, !.actors[i] = r.b,
                                     !.moved = st.moved \/ r.moved,
                                     !.failed = r.failed], i + 1)
         IN Collided(collide_actor_actor(st.player, st.actors[i]))

\* game(): collide_actor_actor(guard i, guard j) for the pairs i < j,
\* from the pair (i, j) on
RECURSIVE PairPass(_, _, _)
PairPass(st, i, j) ==
    IF st.failed \/ i > Len(st.actors) THEN st
    ELSE IF j > Len(st.actors) THEN PairPass(st, i + 1, i + 2)
    ELSE LET Collided(r) ==
               PairPass([st EXCEPT !.actors[i] = r.a, !.actors[j] = r.b,
                                   !.moved = st.moved \/ r.moved,
                                   !.failed = r.failed], i, j + 1)
         IN Collided(collide_actor_actor(st.actors[i], st.actors[j]))

\* game(): one pass of the do loop
CollidePass(lv, pl, as) ==
    LET Collided(r) ==
          PairPass(PlayerPass(LevelPass(lv,
                                        [player |-> r.actor, actors |-> as,
                                         moved |-> r.moved,
                                         failed |-> r.failed],
                                        1),
                              1),
                   1, 2)
    IN Collided(collide_level_actor(lv, pl))

\* the do loop of game() giving up two passes later than tries
RECURSIVE CollideLoopLate(_, _, _, _)
CollideLoopLate(lv, pl, as, i) ==
    IF i = TRIES + 2
    THEN [player |-> pl, actors |-> as, failed |-> FALSE, passes |-> i,
          settled |-> FALSE, moves |-> << >>]
    ELSE LET Passed(st) ==
               IF st.failed
               THEN [player |-> st.player, actors |-> st.actors,
                     failed |-> TRUE, passes |-> i + 1, settled |-> FALSE,
                     moves |-> <<st.moved>>]
               ELSE IF st.moved
               THEN LET Rest(r) == [r EXCEPT !.moves = <<TRUE>> \o @]
                    IN Rest(CollideLoopLate(lv, st.player, st.actors, i + 1))
               ELSE [player |-> st.player, actors |-> st.actors,
                     failed |-> FALSE, passes |-> i + 1, settled |-> TRUE,
                     moves |-> <<FALSE>>]
         IN Passed(CollidePass(lv, pl, as))

\* game(): do { if (i == tries) break; ++i; ... } while (moved);
\* passes counts the passes made, moves holds the value of moved at the
\* end of each of them, settled tells that the loop ended on !moved.
RECURSIVE CollideLoop(_, _, _, _)
CollideLoop(lv, pl, as, i) ==
    IF i = TRIES
    THEN [player |-> pl, actors |-> as, failed |-> FALSE, passes |-> i,
          settled |-> FALSE, moves |-> << >>]
    ELSE LET Passed(st) ==
               IF st.failed
               THEN [player |-> st.player, actors |-> st.actors,
                     failed |-> TRUE, passes |-> i + 1, settled |-> FALSE,
                     moves |-> <<st.moved>>]
               ELSE IF st.moved
               THEN LET Rest(r) == [r EXCEPT !.moves = <<TRUE>> \o @]
                    IN Rest(CollideLoop(lv, st.player, st.actors, i + 1))
               ELSE [player |-> st.player, actors |-> st.actors,
                     failed |-> FALSE, passes |-> i + 1, settled |-> TRUE,
                     moves |-> <<FALSE>>]
         IN Passed(CollidePass(lv, pl, as))

\* game(): the tile the player faces, the first one on the heading that
\* is not the player's own tile; fr is the probe distance
RECURSIVE Facing(_, _)
Facing(pl, fr) ==
    LET Probe(fx, fy) ==
          IF fx = tc(pl.x) /\ fy = tc(pl.y)
          THEN Facing(pl, fr + TILE_SIZE \div 2)
          ELSE <<fx, fy>>
    IN Probe(tc(TruncAdd(pl.x, fr, Cos(pl.angle))),
             tc(TruncAdd(pl.y, -fr, Sin(pl.angle))))

\* game(): the player's own turn and step
PlayerInput(pl, acts) ==
    LET Step(p1) ==
          IF "FORWARD" \in acts \/ "BACKWARD" \in acts
          THEN move(p1, IF "FORWARD" \in acts THEN PLAYER_STEP
                        ELSE -PLAYER_STEP)
          ELSE p1
    IN Step(IF "LEFT" \in acts \/ "RIGHT" \in acts
            THEN turn(pl, IF "LEFT" \in acts THEN PLAYER_TURN
                          ELSE -PLAYER_TURN)
            ELSE pl)

\* the end of game() with the faced tile triggered whether or not
\* ACTIVATE is set
ActivateUnasked(lv, list, pl, acts) ==
    LET Faced(f) ==
          LET i == TileIndex(lv, f[1], f[2])
          IN IF ~InLevel(lv, f[1], f[2])
             THEN [failed |-> TRUE, level |-> lv, marks |-> list,
                   triggered |-> 0]
             ELSE IF ~can_be_activated(lv, f[1], f[2])
             THEN [failed |-> FALSE, level |-> lv, marks |-> list,
                   triggered |-> 0]
             ELSE [failed |-> FALSE,
                   level |-> [lv EXCEPT !.tiles[i].flips_in =
                                           lv.tiles[i].activation_time],
                   marks |-> list, triggered |-> i]
    IN Faced(Facing(pl, pl.radius + TILE_SIZE \div 2))

\* game(): the end of the step: the faced tile is triggered or marked
Activate(lv, list, pl, acts) ==
    LET Faced(f) ==
          LET i == TileIndex(lv, f[1], f[2])
          IN IF ~InLevel(lv, f[1], f[2])
             THEN [failed |-> TRUE, level |-> lv, marks |-> list,
                   triggered |-> 0]
             ELSE IF ~can_be_activated(lv, f[1], f[2])
             THEN [failed |-> FALSE, level |-> lv, marks |-> list,
                   triggered |-> 0]
             ELSE IF "ACTIVATE" \in acts
             THEN [failed |-> FALSE,
                   level |-> [lv EXCEPT !.tiles[i].flips_in =
                                           lv.tiles[i].activation_time],
                   marks |-> list, triggered |-> i]
             ELSE [failed |-> FALSE, level |-> lv,
                   marks |-> mark(list, "MARK_TILE_PLAYER_FACING",
                                  f[1], f[2]),
                   triggered |-> 0]
    IN Faced(Facing(pl, pl.radius + TILE_SIZE \div 2))

\* game() with the collision loop working on the tiles as they were
\* before check_tiles()
LevelAtCollisionUnticked(before, ticked) == before

\* game(): check_tiles(&level) is called before the do loop, so the
\* collision loop works on the tiles after their countdowns were advanced
LevelAtCollision(before, ticked) == ticked

\* what is recorded of a game() call that did not complete
NoObs ==
    [guards |-> << >>, passes |-> 0, settled |-> TRUE, moves |-> << >>,
     triggered |-> 0, flipped |-> {}, stepped |-> << >>, fr |-> -1]

\* game(): the stages in the order of the code.  stepped records the
\* player and the guards as they enter the collision loop.
game(fr, lv, pl, acts, as) ==
    LET Moved(p1) ==
          LET Sought(ma) ==
                LET Ticked(lv1) ==
                      LET Settled(co) ==
                            LET Faced(ac) ==
                                  IF co.failed \/ ac.failed
                                  THEN [failed |-> TRUE, level |-> lv1,
                                        player |-> co.player,
                                        actors |-> co.actors,
                                        marks |-> ma.marks, obs |-> NoObs]
                                  ELSE [failed |-> FALSE,
                                        level |-> ac.level,
                                        player |-> co.player,
                                        actors |-> co.actors,
                                        marks |-> ac.marks,
                                        obs |->
                                          [guards |-> ma.obs,
                                           passes |-> co.passes,
                                           settled |-> co.settled,
                                           moves |-> co.moves,
                                           triggered |-> ac.triggered,
                                           flipped |->
                                             {i \in DOMAIN lv.tiles :
                                                lv1.tiles[i].active #
                                                  lv.tiles[i].active},
                                           stepped |-> <<p1, ma.actors>>,
                                           fr |-> fr]]
                            IN Faced(Activate(lv1, ma.marks, co.player,
                                              acts))
                      IN Settled(CollideLoop(LevelAtCollision(lv, lv1), p1,
                                             ma.actors, 0))
                IN IF ma.status # "ok"
                   THEN [failed |-> TRUE, level |-> lv, player |-> p1,
                         actors |-> as, marks |-> ma.marks, obs |-> NoObs]
                   ELSE Ticked(check_tiles(lv))
          IN Sought(move_actors(fr, << >>, as, lv, p1))
    IN Moved(PlayerInput(pl, acts))

---------------------------------------------------------------------------
(* compute_sight() *)

\* compute_sight(): the Sight table before the circle walk, and the
\* locals of the walk.  tiles is the set of the cells set to true.
SightInit(lv, actor, radius) ==
    LET atx == tc(actor.x)
        aty == tc(actor.y)
        ox == clamp(atx - radius, 0, lv.width - 1)
        oy == clamp(aty - radius, 0, lv.height - 1)
        side == (radius + 1) * (radius + 1)
    IN [status |-> "run", radius |-> radius, atx |-> atx, aty |-> aty,
        ox |-> ox, oy |-> oy,
        width |-> clamp(side, 1, lv.width - ox),
        height |-> clamp(side, 1, lv.height - oy),
        tiles |-> {},
        x |-> radius, y |-> 0, dx |-> 1 - radius * 2, dy |-> 0, err |-> 0]

\* the assertions of sight_set()
InSight(st, x, y) ==
    /\ x - st.ox >= 0 /\ y - st.oy >= 0
    /\ x - st.ox < st.width /\ y - st.oy < st.height

\* sight_callback() answering true for every tile
RECURSIVE SightRayThrough(_, _, _)
SightRayThrough(lv, st, cells) ==
    IF cells = << >> \/ st.status # "run" THEN st
    ELSE LET c == Head(cells)
         IN IF ~InSight(st, c[1], c[2]) \/ ~InLevel(lv, c[1], c[2])
            THEN [st EXCEPT !.status = "failed"]
            ELSE SightRayThrough(lv, [st EXCEPT !.tiles = st.tiles \cup {c}],
                                 Tail(cells))

\* sight_callback() along the cells of one bresenham() call, as long as it
\* answers true
RECURSIVE SightRay(_, _, _)
SightRay(lv, st, cells) ==
    IF cells = << >> \/ st.status # "run" THEN st
    ELSE LET c == Head(cells)
         IN IF ~InSight(st, c[1], c[2]) \/ ~InLevel(lv, c[1], c[2])
            THEN [st EXCEPT !.status = "failed"]
            ELSE LET st1 == [st EXCEPT !.tiles = st.tiles \cup {c}]
                 IN IF see_through(lv, c[1], c[2])
                    THEN SightRay(lv, st1, Tail(cells))
                    ELSE st1

\* compute_sight(): the end points of the eight bresenham() calls of one
\* iteration, in the order of the code
RingEnds(st) ==
    << <<st.atx + st.x, st.aty + st.y>>, <<st.atx + st.y, st.aty + st.x>>,
       <<st.atx - st.x, st.aty + st.y>>, <<st.atx - st.y, st.aty + st.x>>,
       <<st.atx - st.x, st.aty - st.y>>, <<st.atx - st.y, st.aty - st.x>>,
       <<st.atx + st.x, st.aty - st.y>>, <<st.atx + st.y, st.aty - st.x>> >>

RECURSIVE SightRays(_, _, _)
SightRays(lv, st, ends) ==
    IF ends = << >> THEN st
    ELSE SightRays(lv,
                   SightRay(lv, st,
                            BresenhamCells(st.atx, st.aty,
                                           Head(ends)[1], Head(ends)[2])),
                   Tail(ends))

\* compute_sight(): one iteration of while (x >= y)
SightRing(lv, st) ==
    LET r == SightRays(lv, st, RingEnds(st))
        y1 == st.y + 1
        err1 == st.err + st.dy
        dy1 == st.dy + 2
        in == 2 * err1 + st.dx > 0
        x1 == IF in THEN st.x - 1 ELSE st.x
    IN IF r.status # "run" THEN r
       ELSE [r EXCEPT !.y = y1,
                      !.dy = dy1,
                      !.x = x1,
                      !.err = IF in THEN err1 + st.dx ELSE err1,
                      !.dx = IF in THEN st.dx + 2 ELSE st.dx,
                      !.status = IF x1 >= y1 THEN "run" ELSE "done"]

---------------------------------------------------------------------------
(* main(): the frame loop *)

\* the tiles that can be activated (activation_time >= 0)
Doors(lv) == {i \in DOMAIN lv.tiles : lv.tiles[i].activation_time >= 0}

\* history kept per door: the frame of the latest trigger, the active flag
\* the door had then, and the numbers of triggers and of toggles so far
NoHist(lv) ==
    [i \in Doors(lv) |->
       [trig |-> -1, from |-> FALSE, triggers |-> 0, toggles |-> 0]]

HistAfter(h, lv, o) ==
    [i \in DOMAIN h |->
       LET h1 == IF i \in o.flipped
                 THEN [h[i] EXCEPT !.toggles = h[i].toggles + 1]
                 ELSE h[i]
       IN IF o.triggered = i
          THEN [h1 EXCEPT !.trig = o.fr,
                          !.from = (lv.tiles[i].active # (i \in o.flipped)),
                          !.triggers = h1.triggers + 1]
          ELSE h1]

NoInput == [scenario |-> "", events |-> << >>, frames |-> 0]
NoSearch == [status |-> "idle"]
NoSight == [status |-> "idle"]

\* main(): one iteration of the loop after the event was polled: game()
\* runs with the actions acts; a failed assert() ends the program
Frame(acts) ==
    \E g \in {game(frame, level, player, acts, actors)} :
       IF g.failed
       THEN /\ failed' = TRUE
            /\ UNCHANGED <<level, frame, player, actors, actions, marks, obs,
                           hist, search, sight>>
       ELSE /\ level' = g.level
            /\ frame' = frame + 1
            /\ player' = g.player
            /\ actors' = g.actors
            /\ actions' = acts
            /\ marks' = g.marks
            /\ obs' = g.obs
            /\ hist' = HistAfter(hist, level, g.obs)
            /\ UNCHANGED <<failed, search, sight>>

---------------------------------------------------------------------------
(* Doors: a corridor with one door, the player before it as main() places
   them, and the keys ACTIVATE, FORWARD and BACKWARD *)

MaxDoorFrame == 26

DoorRows ==
    << <<"#", "#", "#", "#", "#">>,
       <<"#", " ", "+", " ", "#">>,
       <<"#", "#", "#", "#", "#">> >>

DoorKeys == {"ACTIVATE", "FORWARD", "BACKWARD"}

InitDoor ==
    /\ level = LoadLevel(DoorRows)
    /\ frame = 0
    /\ player = init_actor(pc(1), pc(1), 0, ACTOR_R)
    /\ actors = << >>
    /\ actions = {}
    /\ marks = << >>
    /\ failed = FALSE
    /\ obs = NoObs
    /\ hist = NoHist(LoadLevel(DoorRows))
    /\ input = NoInput
    /\ search = NoSearch
    /\ sight = NoSight

\* main(): a frame in which SDL_PollEvent() delivers a key press or release
DoorKeyFrame ==
    /\ ~failed
    /\ frame < MaxDoorFrame
    /\ \E k \in DoorKeys, down \in BOOLEAN :
         Frame(IF down THEN actions \cup {k} ELSE actions \ {k})
    /\ UNCHANGED input

\* main(): a frame without an event
DoorIdleFrame ==
    /\ ~failed
    /\ frame < MaxDoorFrame
    /\ Frame(actions)
    /\ UNCHANGED input

NextDoor == DoorKeyFrame \/ DoorIdleFrame

SpecDoor == InitDoor /\ [][NextDoor]_vars

---------------------------------------------------------------------------
(* Guards: small levels, the player where main() places it
   (tile (1, 1)), guards on tile centres, and the keys pressed and released
   at fixed frames *)

\* the numbers of frames a short and a long scenario run
ShortRun == 40
LongRun == 195

\* a radius above half a tile, for actors wider than main() makes them
WIDE_R == (5 * TILE_SIZE) \div 8

OpenRows ==
    << <<" ", " ", " ", " ", " ">>,
       <<" ", " ", " ", " ", " ">>,
       <<" ", " ", " ", " ", " ">>,
       <<" ", " ", " ", " ", " ">>,
       <<" ", " ", " ", " ", " ">> >>

DiagonalRows ==
    << <<"#", "#", "#", "#">>,
       <<"#", " ", "#", "#">>,
       <<"#", "#", " ", "#">>,
       <<"#", "#", "#", "#">> >>

PillarRows ==
    << <<"#", "#", "#", "#", "#", "#", "#">>,
       <<"#", " ", " ", " ", " ", " ", "#">>,
       <<"#", " ", "#", " ", "#", " ", "#">>,
       <<"#", " ", " ", " ", " ", " ", "#">>,
       <<"#", " ", "#", " ", "#", " ", "#">>,
       <<"#", " ", " ", " ", " ", " ", "#">>,
       <<"#", "#", "#", "#", "#", "#", "#">> >>

BypassRows ==
    << <<"#", "#", "#", "#", "#", "#", "#">>,
       <<"#", " ", " ", "+", " ", " ", "#">>,
       <<"#", " ", "#", "#", "#", " ", "#">>,
       <<"#", " ", " ", " ", " ", " ", "#">>,
       <<"#", "#", "#", "#", "#", "#", "#">> >>

RoomRows ==
    << <<"#", "#", "#", "#", "#">>,
       <<"#", " ", " ", " ", "#">>,
       <<"#", " ", " ", " ", "#">>,
       <<"#", "#", "#", "#", "#">> >>

\* a scenario: the level file, the player's heading, the radius of all
\* actors, the guards' tiles and headings, the key events as
\* <<frame, key, pressed>>, and the number of frames that are run
ChaseScenarios ==
    { [name |-> "open-135", rows |-> OpenRows, heading |-> 0,
       radius |-> ACTOR_R, guards |-> << <<3, 3, 135>> >>,
       frames |-> ShortRun,
       events |-> << >>],
      [name |-> "open-90", rows |-> OpenRows, heading |-> 0,
       radius |-> ACTOR_R, guards |-> << <<3, 3, 90>> >>,
       frames |-> ShortRun,
       events |-> << >>],
      [name |-> "open-180", rows |-> OpenRows, heading |-> 0,
       radius |-> ACTOR_R, guards |-> << <<3, 3, 180>> >>,
       frames |-> ShortRun,
       events |-> << >>],
      [name |-> "open-315", rows |-> OpenRows, heading |-> 0,
       radius |-> ACTOR_R, guards |-> << <<3, 3, 315>> >>,
       frames |-> ShortRun,
       events |-> << >>],
      [name |-> "wide", rows |-> OpenRows, heading |-> 0,
       radius |-> WIDE_R, guards |-> << <<3, 3, 135>> >>,
       frames |-> ShortRun,
       events |-> << >>],
      [name |-> "row", rows |-> OpenRows, heading |-> 0,
       radius |-> ACTOR_R, guards |-> << <<3, 1, 180>> >>,
       frames |-> ShortRun,
       events |-> << >>],
      [name |-> "diagonal", rows |-> DiagonalRows, heading |-> 0,
       radius |-> ACTOR_R, guards |-> << <<2, 2, 135>> >>,
       frames |-> ShortRun,
       events |-> << >>],
      [name |-> "pillars", rows |-> PillarRows, heading |-> 90,
       radius |-> ACTOR_R, guards |-> << <<3, 3, 90>> >>,
       frames |-> LongRun,
       events |-> << <<1, "BACKWARD", TRUE>>, <<24, "LEFT", TRUE>>,
                     <<45, "LEFT", FALSE>>, <<59, "RIGHT", TRUE>>,
                     <<63, "RIGHT", FALSE>> >>],
      [name |-> "bypass", rows |-> BypassRows, heading |-> 0,
       radius |-> ACTOR_R, guards |-> << <<5, 1, 180>> >>,
       frames |-> LongRun,
       events |-> << <<0, "FORWARD", TRUE>>, <<8, "FORWARD", FALSE>>,
                     <<9, "ACTIVATE", TRUE>>, <<10, "ACTIVATE", FALSE>>,
                     <<21, "ACTIVATE", TRUE>>, <<22, "ACTIVATE", FALSE>>,
                     <<100, "ACTIVATE", TRUE>>, <<101, "ACTIVATE", FALSE>>,
                     <<112, "ACTIVATE", TRUE>>, <<113, "ACTIVATE", FALSE>>,
                     <<114, "FORWARD", TRUE>>, <<135, "FORWARD", FALSE>> >>],
      [name |-> "two", rows |-> PillarRows, heading |-> 270,
       radius |-> ACTOR_R, guards |-> << <<3, 3, 90>>, <<5, 5, 180>> >>,
       frames |-> ShortRun,
       events |-> << <<2, "FORWARD", TRUE>>, <<40, "FORWARD", FALSE>> >>],
      [name |-> "flee", rows |-> OpenRows, heading |-> 0,
       radius |-> ACTOR_R, guards |-> << <<3, 3, 135>> >>,
       frames |-> ShortRun,
       events |-> << <<30, "FORWARD", TRUE>> >>],
      [name |-> "squeeze", rows |-> RoomRows, heading |-> 0,
       radius |-> ACTOR_R, guards |-> << <<3, 1, 135>> >>,
       frames |-> ShortRun,
       events |-> << <<0, "FORWARD", TRUE>> >>] }

InitChase ==
    \E s \in ChaseScenarios :
       /\ level = LoadLevel(s.rows)
       /\ frame = 0
       /\ player = init_actor(pc(1), pc(1), s.heading, s.radius)
       /\ actors = [i \in 1..Len(s.guards) |->
                      init_actor(pc(s.guards[i][1]), pc(s.guards[i][2]),
                                 s.guards[i][3], s.radius)]
       /\ actions = {}
       /\ marks = << >>
       /\ failed = FALSE
       /\ obs = NoObs
       /\ hist = NoHist(LoadLevel(s.rows))
       /\ input = [scenario |-> s.name, events |-> s.events,
                   frames |-> s.frames]
       /\ search = NoSearch
       /\ sight = NoSight

\* the next key event is due in this frame
EventDue == input.events # << >> /\ input.events[1][1] = frame

\* main(): a frame in which SDL_PollEvent() delivers the next key event
ChaseKeyFrame ==
    /\ ~failed
    /\ frame < input.frames
    /\ EventDue
    /\ LET e == input.events[1]
       IN Frame(IF e[3] THEN actions \cup {e[2]} ELSE actions \ {e[2]})
    /\ input' = [input EXCEPT !.events = Tail(input.events)]

\* main(): a frame without an event
ChaseIdleFrame ==
    /\ ~failed
    /\ frame < input.frames
    /\ ~EventDue
    /\ Frame(actions)
    /\ UNCHANGED input

NextChase == ChaseKeyFrame \/ ChaseIdleFrame

SpecChase == InitChase /\ [][NextChase]_vars

---------------------------------------------------------------------------
(* Doors: properties.  In a state, frame = f means that the calls game(0),
   ..., game(f - 1) have completed. *)

\* C1: a door with activation_time 10 that is inactive and not flipping
\* when it is triggered in tick T stays inactive in every tick before
\* T + 10, and tick T + 10 flips it: after game(T + 10) it is active,
\* passable and see-through.
C1_FlipsInTickTPlus10 ==
    \A i \in DOMAIN hist :
       LET tile == level.tiles[i]
           T == hist[i].trig
           x == (i - 1) % level.width
           y == (i - 1) \div level.width
       IN (T >= 0 /\ ~hist[i].from /\ tile.activation_time = 10) =>
            /\ (frame <= T + 10 =>
                  ~tile.active /\ ~passable(level, x, y)
                    /\ ~see_through(level, x, y))
            /\ (frame = T + 11 =>
                  tile.active /\ passable(level, x, y)
                    /\ see_through(level, x, y))

\* C2: every trigger causes exactly one toggle.  While the countdown runs
\* (flips_in >= 0) exactly one trigger is pending, it counts down from
\* activation_time by one per tick whatever keys are held, and while no
\* countdown runs the door has toggled as often as it was triggered.
C2_OneTogglePerTrigger ==
    \A i \in DOMAIN hist :
       LET tile == level.tiles[i]
       IN /\ hist[i].triggers =
               hist[i].toggles + (IF tile.flips_in >= 0 THEN 1 ELSE 0)
          /\ tile.flips_in >= 0 =>
               tile.flips_in =
                 tile.activation_time - (frame - 1 - hist[i].trig)
          /\ tile.active = (hist[i].toggles % 2 = 1)

\* C2 happens: ACTIVATE is held while the second countdown of a door runs,
\* after the first trigger has toggled it once
C2_HeldDuringSecondCountdown ==
    \E i \in DOMAIN hist :
       /\ hist[i].toggles = 1
       /\ hist[i].triggers = 2
       /\ "ACTIVATE" \in actions
       /\ level.tiles[i].flips_in \in 0..(level.tiles[i].activation_time - 2)

---------------------------------------------------------------------------
(* Guards: properties.  obs.guards[i] records the last move_actors() call
   for guard i: before and after are the guard at its start and at its end,
   (px, py) is the player's position, fr the frame number. *)

C4_ArrivalArmsDeadline ==
    \A i \in DOMAIN obs.guards :
       LET o == obs.guards[i]
       IN (/\ ~o.los /\ o.seeks /\ o.found /\ ~o.nopath
           /\ (o.seek_x # o.before.base_x \/ o.seek_y # o.before.base_y))
          => /\ o.after.tx = -1 /\ o.after.ty = -1
             /\ o.after.give_up_at = o.fr + GIVE_UP_DELAY

\* C5: a guard with deadline D and no line-of-sight has no target and
\* keeps D in every tick before D; tick D, not an earlier and not a later
\* one, clears the deadline, seeks the home position and sets the pending
\* heading to the home angle.
C5_GivesUpInTickD ==
    \A i \in DOMAIN obs.guards :
       LET o == obs.guards[i]
           D == o.before.give_up_at
       IN (D >= 0 /\ ~o.los) =>
            /\ o.fr <= D
            /\ o.fr < D =>
                 /\ ~has_target(o.before) /\ ~has_target(o.after)
                 /\ ~o.gave_up /\ ~o.seeks
                 /\ o.after.give_up_at = D
            /\ o.fr = D =>
                 /\ o.gave_up /\ o.seeks
                 /\ o.seek_x = o.before.base_x /\ o.seek_y = o.before.base_y
                 /\ o.t_angle = o.before.base_angle
                 /\ o.after.give_up_at = -1

\* C5 happens: a guard is past tick D of its deadline, giving up there
C5_GaveUp ==
    \E i \in DOMAIN obs.guards :
       LET o == obs.guards[i]
       IN ~o.los /\ o.gave_up /\ o.fr = o.before.give_up_at

\* C6: a deadline is armed (give_up_at = tick + 60) only in a tick without
\* line-of-sight in which a path to the non-home target exists and the
\* seek step needed neither a turn nor a move.
C6_ArmedOnlyOnUnseenArrival ==
    \A i \in DOMAIN obs.guards :
       LET o == obs.guards[i]
       IN o.after.give_up_at = o.fr + GIVE_UP_DELAY =>
            /\ ~o.los
            /\ o.seeks /\ o.found /\ ~o.nopath
            /\ (o.seek_x # o.before.base_x \/ o.seek_y # o.before.base_y)

\* C7: a guard that has no line-of-sight and no target in a tick is left
\* where it is and unturned by move_actors().
C7_IdleGuardStays ==
    \A i \in DOMAIN obs.guards :
       LET o == obs.guards[i]
       IN (~o.los /\ ~has_target(o.before)) =>
            /\ o.after.x = o.before.x /\ o.after.y = o.before.y
            /\ o.after.angle = o.before.angle

\* C7, as the code has it: a guard without line-of-sight, without target,
\* without pending heading and whose deadline, if any, lies after this
\* tick is left entirely unchanged by move_actors().
C7_RestingGuardStays ==
    \A i \in DOMAIN obs.guards :
       LET o == obs.guards[i]
       IN (/\ ~o.los /\ ~has_target(o.before)
           /\ o.before.t_angle = -1
           /\ ~should_give_up(o.fr, o.before))
          => o.after = o.before

\* C7 happens: a guard waits for its deadline, unseeing and without target
C7_WaitingGuard ==
    \E i \in DOMAIN obs.guards :
       LET o == obs.guards[i]
       IN /\ ~o.los /\ ~has_target(o.before) /\ o.before.t_angle = -1
          /\ o.before.give_up_at > o.fr

---------------------------------------------------------------------------
(* Path search and sight on their own: small grids with and without a wall
   around them, every passable tile as a place to stand on *)

MaxSightRadius == 3

GridRows ==
    { << <<" ", " ", " ">>,
         <<" ", " ", " ">>,
         <<" ", " ", " ">> >>,
      << <<" ", "#", " ", " ">>,
         <<" ", " ", "#", " ">>,
         <<"#", " ", " ", " ">> >>,
      << <<"#", "#", "#", "#", "#">>,
         <<"#", " ", " ", " ", "#">>,
         <<"#", " ", "#", " ", "#">>,
         <<"#", " ", " ", " ", "#">>,
         <<"#", "#", "#", "#", "#">> >>,
      << <<" ", "#", " ">>,
         <<"#", "#", " ">>,
         <<" ", " ", " ">> >>,
      << <<"#", "#", "#", "#", "#", "#">>,
         <<"#", " ", " ", " ", " ", "#">>,
         <<"#", " ", " ", "#", " ", "#">>,
         <<"#", "#", " ", " ", " ", "#">>,
         <<"#", "#", "#", "#", "#", "#">> >> }

\* the passable tiles of a level
Floor(lv) ==
    {c \in (0..(lv.width - 1)) \X (0..(lv.height - 1)) :
       passable(lv, c[1], c[2])}

InitPath ==
    \E rows \in GridRows :
       \E start \in Floor(LoadLevel(rows)), goal \in Floor(LoadLevel(rows)) :
          /\ level = LoadLevel(rows)
          /\ frame = 0
          /\ player = init_actor(pc(goal[1]), pc(goal[2]), 0, ACTOR_R)
          /\ actors = << init_actor(pc(start[1]), pc(start[2]), 0, ACTOR_R) >>
          /\ actions = {}
          /\ marks = << >>
          /\ failed = FALSE
          /\ obs = NoObs
          /\ hist = NoHist(LoadLevel(rows))
          /\ input = NoInput
          /\ search = AStarInit(start[1], start[2], goal[1], goal[2])
          /\ sight = NoSight

\* a_star(): one iteration of the loop, from the guard's tile to the
\* player's
PathStep ==
    /\ search.status = "run"
    /\ search' = AStarStep(level, search,
                           tc(actors[1].x), tc(actors[1].y),
                           tc(player.x), tc(player.y))
    /\ failed' = (search'.status = "failed")
    /\ UNCHANGED <<level, frame, player, actors, actions, marks, obs, hist,
                   input, sight>>

NextPath == PathStep

SpecPath == InitPath /\ [][NextPath]_vars

InitSight ==
    \E rows \in GridRows :
       \E at \in Floor(LoadLevel(rows)), radius \in 0..MaxSightRadius :
          /\ level = LoadLevel(rows)
          /\ frame = 0
          /\ player = init_actor(pc(at[1]), pc(at[2]), 0, ACTOR_R)
          /\ actors = << >>
          /\ actions = {}
          /\ marks = << >>
          /\ failed = FALSE
          /\ obs = NoObs
          /\ hist = NoHist(LoadLevel(rows))
          /\ input = NoInput
          /\ search = NoSearch
          /\ sight = SightInit(LoadLevel(rows),
                               init_actor(pc(at[1]), pc(at[2]), 0, ACTOR_R),
                               radius)

\* compute_sight(): one iteration of the circle walk
SightStep ==
    /\ sight.status = "run"
    /\ sight' = SightRing(level, sight)
    /\ failed' = (sight'.status = "failed")
    /\ UNCHANGED <<level, frame, player, actors, actions, marks, obs, hist,
                   input, search>>

NextSight == SightStep

SpecSight == InitSight /\ [][NextSight]_vars

\* C9: a_star() asks neighbors() only for tiles inside the grid: no bounds
\* assertion of tile_at() fails, whichever passable start and goal tiles
\* are given and also when the expanded tile lies in the last column or
\* the last row.
C9_SearchStaysInsideGrid ==
    search.status # "failed"

\* C10: compute_sight() sets only tiles inside its table and asks
\* see_through() only for tiles inside the grid: the assertions of
\* sight_set() and tile_at() do not fail, whatever the grid, the
\* observer's tile and the radius.
C10_SightStaysInsideGrid ==
    sight.status # "failed"

---------------------------------------------------------------------------
(* game(): the collision loop.  obs records of the last completed game()
   call the number of passes of the do loop and the value of moved after
   each pass. *)

\* C11: in every tick the collision loop of game() makes at least one and
\* at most 10 full passes; every pass but the last one moved an actor; the
\* loop ends after the first pass that moved nothing, or after the 10th
\* pass although that pass still moved something.
C11_AtMostTenPasses ==
    obs.fr >= 0 =>
       /\ obs.passes \in 1..10
       /\ Len(obs.moves) = obs.passes
       /\ \A k \in 1..(obs.passes - 1) : obs.moves[k]
       /\ obs.settled = ~obs.moves[obs.passes]
       /\ ~obs.settled => obs.passes = 10

\* C11 happens: the 10th pass of a tick still moved an actor and the tick
\* went on with the positions it left
C11_GaveUpUnsettled ==
    /\ obs.fr >= 0
    /\ obs.passes = 10
    /\ ~obs.settled
    /\ frame = obs.fr + 1

---------------------------------------------------------------------------
(* The paths a_star() returns, against the moves the level allows *)

\* a move from tile a to tile b: b is one of the eight tiles round a,
\* inside the level and passable, and for a diagonal move the two tiles
\* that share a side with both are inside the level and passable
LegalStep(lv, a, b) ==
    LET Open(x, y) == InLevel(lv, x, y) /\ passable(lv, x, y)
    IN /\ a # b
       /\ Abs(b[1] - a[1]) <= 1 /\ Abs(b[2] - a[2]) <= 1
       /\ Open(b[1], b[2])
       /\ (b[1] # a[1] /\ b[2] # a[2]) =>
             Open(b[1], a[2]) /\ Open(a[1], b[2])

\* the number of tiles of a shortest sequence of moves from the tiles
\* seen (the outermost of them being front, n tiles from the start) to
\* goal; 0 if there is none
RECURSIVE Shortest(_, _, _, _, _)
Shortest(lv, seen, front, goal, n) ==
    IF goal \in front THEN n
    ELSE IF front = {} THEN 0
    ELSE LET Next(more) == Shortest(lv, seen \cup more, more, goal, n + 1)
         IN Next({b \in ((0..(lv.width - 1)) \X (0..(lv.height - 1))) \ seen :
                    \E a \in front : LegalStep(lv, a, b)})

\* the start and the goal of the search that search holds
SearchStart == <<tc(actors[1].x), tc(actors[1].y)>>
SearchGoal == <<tc(player.x), tc(player.y)>>

\* C12: whenever a_star() returns a path, no sequence of legal moves from
\* the start to the goal has fewer tiles.
C12_ReturnsShortestPath ==
    search.status = "found" =>
       Len(search.path) =
         Shortest(level, {SearchStart}, {SearchStart}, SearchGoal, 1)

\* C13: whenever a_star() returns a path, it begins at the start tile,
\* ends at the goal tile, every two consecutive tiles are a legal move,
\* and for start = goal it is the one tile.
C13_PathOfLegalSteps ==
    search.status = "found" =>
       /\ Len(search.path) >= 1
       /\ search.path[1] = SearchStart
       /\ search.path[Len(search.path)] = SearchGoal
       /\ \A k \in 1..(Len(search.path) - 1) :
             LegalStep(level, search.path[k], search.path[k + 1])
       /\ SearchStart = SearchGoal => search.path = <<SearchStart>>

\* C13 happens: a returned path of at least four tiles that goes round a
\* blocking tile, with a straight and a diagonal move
C13_PathRoundWall ==
    /\ search.status = "found"
    /\ Len(search.path) >= 4
    /\ \E k \in 1..(Len(search.path) - 1) :
          /\ search.path[k][1] # search.path[k + 1][1]
          /\ search.path[k][2] # search.path[k + 1][2]
    /\ \E k \in 1..(Len(search.path) - 1) :
          \/ search.path[k][1] = search.path[k + 1][1]
          \/ search.path[k][2] = search.path[k + 1][2]
    /\ Len(search.path) >
          1 + (IF Abs(SearchGoal[1] - SearchStart[1]) >
                    Abs(SearchGoal[2] - SearchStart[2])
               THEN Abs(SearchGoal[1] - SearchStart[1])
               ELSE Abs(SearchGoal[2] - SearchStart[2]))

\* C14: if no tile round the goal can be entered and the start is not the
\* goal, a_star() ends with "no path": it neither returns a path nor
\* fails, whatever the start tile.
C14_EnclosedGoalGivesNoPath ==
    (/\ SearchStart # SearchGoal
     /\ search.status \in {"found", "failed", "loop", "none"}
     /\ \A dx \in {-1, 0, 1}, dy \in {-1, 0, 1} :
           LET x == SearchGoal[1] + dx
               y == SearchGoal[2] + dy
           IN (<<dx, dy>> # <<0, 0>> /\ InLevel(level, x, y)) =>
                ~passable(level, x, y))
    => search.status = "none"

---------------------------------------------------------------------------
(* A guard whose goal cannot be reached *)

\* C15: in a tick in which find_path() returned NULL for a guard,
\* seek_target() left the guard where it was and facing as it did, and the
\* tick completed.
C15_NoPathLeavesGuard ==
    \A i \in 1..Len(obs.guards) :
       obs.guards[i].nopath =>
          /\ obs.guards[i].sought.x = obs.guards[i].seeker.x
          /\ obs.guards[i].sought.y = obs.guards[i].seeker.y
          /\ obs.guards[i].sought.angle = obs.guards[i].seeker.angle
          /\ ~failed
          /\ frame = obs.fr + 1

\* C15 happens: a tick in which a guard had a goal and find_path()
\* returned NULL for it
C15_GuardFoundNoPath ==
    /\ ~failed
    /\ frame = obs.fr + 1
    /\ \E i \in 1..Len(obs.guards) :
          obs.guards[i].seeks /\ obs.guards[i].nopath

---------------------------------------------------------------------------
(* The order of the stages of game() *)

\* C16 as stated: the countdowns are advanced after the collision loop, so
\* in a tick in which a tile flipped the collision loop left the player
\* and the guards where it leaves them on the tiles before the flip.
C16_FlipAfterCollisions ==
    [][obs'.flipped # {} =>
         \E co \in {CollideLoop(level, obs'.stepped[1], obs'.stepped[2], 0)} :
            co.player = player' /\ co.actors = actors']_vars

\* C16 amended: the countdowns are advanced before the collision loop, so
\* the loop of a tick works on the tiles as they are after the tick's
\* flips: after a tick whose loop settled, one more pass over the tiles
\* of the level moves nobody.
C16_CollisionsSeeFlippedTiles ==
    (obs.fr >= 0 /\ obs.settled /\ ~failed) =>
       ~CollidePass(level, player, actors).moved

\* C16 happens: a door closed in a tick while the player stood partly in
\* its tile without walking, and the collision loop of that tick pushed
\* the player out
C16_PushedByClosingDoor ==
    /\ obs.fr >= 0 /\ frame = obs.fr + 1 /\ ~failed
    /\ obs.settled
    /\ \E i \in obs.flipped : ~level.tiles[i].active
    /\ actions \cap {"FORWARD", "BACKWARD"} = {}
    /\ obs.stepped[1].x # player.x

---------------------------------------------------------------------------
(* The mark list of a frame: mark() called on lists of main()'s capacity
   that earlier calls left empty, nearly full or full *)

\* the number of mark() calls followed
MaxMarkCalls == 3

\* a list after n calls of mark() for the tiles of a path
MarkedPath(n) ==
    [k \in 1..n |-> [reason |-> "MARK_ACTOR_PATH", x |-> k % 5,
                     y |-> k \div 5]]

InitMarks ==
    /\ level = LoadLevel(DoorRows)
    /\ frame = 0
    /\ player = init_actor(pc(1), pc(1), 0, ACTOR_R)
    /\ actors = << >>
    /\ actions = {}
    /\ marks \in {MarkedPath(n) : n \in {0, MARK_MAX - 2, MARK_MAX - 1,
                                         MARK_MAX}}
    /\ failed = FALSE
    /\ obs = NoObs
    /\ hist = NoHist(LoadLevel(DoorRows))
    /\ input = NoInput
    /\ search = NoSearch
    /\ sight = NoSight

\* one call of mark(); input keeps the arguments and the length of the
\* list before the call, frame counts the calls
MarkCall ==
    /\ frame < MaxMarkCalls
    /\ \E reason \in {"MARK_ACTOR_PATH", "MARK_ACTOR_SPOTTED",
                       "MARK_TILE_PLAYER_FACING"},
          x \in {0, 2} :
         /\ marks' = mark(marks, reason, x, 1)
         /\ input' = [scenario |-> "mark", reason |-> reason, x |-> x,
                      y |-> 1, len |-> Len(marks)]
    /\ frame' = frame + 1
    /\ UNCHANGED <<level, player, actors, actions, failed, obs, hist,
                   search, sight>>

NextMarks == MarkCall

SpecMarks == InitMarks /\ [][NextMarks]_vars

\* C17: after every mark() call the list holds at most max_len marks; a
\* call on a full list leaves the list as it was; a call on a list that
\* is not full appends the one mark of the call and leaves the marks
\* before it as they were.
C17_MarkListWithinCapacity ==
    [][/\ Len(marks') <= MARK_MAX
       /\ Len(marks) = MARK_MAX => marks' = marks
       /\ Len(marks) < MARK_MAX =>
             /\ Len(marks') = Len(marks) + 1
             /\ SubSeq(marks', 1, Len(marks)) = marks
             /\ marks'[Len(marks')] =
                   [reason |-> input'.reason, x |-> input'.x,
                    y |-> input'.y]]_vars

\* C17 happens: mark() was called on a full list
C17_MarkOnFullList ==
    /\ input.scenario = "mark"
    /\ input.len = MARK_MAX
    /\ Len(marks) = MARK_MAX

---------------------------------------------------------------------------
(* What a game() step leaves alone *)

\* the fields of an actor that no step writes
SamePlace(a, b) ==
    /\ b.radius = a.radius
    /\ b.base_x = a.base_x /\ b.base_y = a.base_y
    /\ b.base_angle = a.base_angle

\* C18: a game() step keeps the width, the height and the number of tiles
\* of the level, the number of actors, the radius and the home pose of the
\* player and of every guard, and the code, the activation_time and the
\* two capability functions of every tile; a tile with activation_time < 0
\* keeps its active flag and its countdown; and a countdown is started
\* only for the one tile the player faces after the step, only with
\* ACTIVATE set and with can_be_activated true for that tile.
C18_StepKeepsShape ==
    [][/\ level'.width = level.width /\ level'.height = level.height
       /\ DOMAIN level'.tiles = DOMAIN level.tiles
       /\ Len(actors') = Len(actors)
       /\ SamePlace(player, player')
       /\ \A i \in 1..Len(actors) : SamePlace(actors[i], actors'[i])
       /\ \A i \in DOMAIN level.tiles :
             /\ level'.tiles[i].code = level.tiles[i].code
             /\ level'.tiles[i].activation_time =
                   level.tiles[i].activation_time
             /\ level'.tiles[i].passable = level.tiles[i].passable
             /\ level'.tiles[i].see_through = level.tiles[i].see_through
             /\ level.tiles[i].activation_time < 0 =>
                   /\ level'.tiles[i].active = level.tiles[i].active
                   /\ level'.tiles[i].flips_in = level.tiles[i].flips_in
             /\ level'.tiles[i].flips_in # CheckTile(level.tiles[i]).flips_in
                   => /\ "ACTIVATE" \in actions'
                      /\ CheckTile(level.tiles[i]).flips_in < 0
                      /\ level.tiles[i].activation_time >= 0
                      /\ level'.tiles[i].flips_in =
                            level.tiles[i].activation_time
                      /\ i = TileIndex(level,
                                Facing(player', player'.radius +
                                                TILE_SIZE \div 2)[1],
                                Facing(player', player'.radius +
                                                TILE_SIZE \div 2)[2])]_vars

\* C18 happens: a step with guards in the level started the countdown of
\* the door the player faces
C18_DoorTriggeredAmongGuards ==
    /\ obs.fr >= 0 /\ frame = obs.fr + 1 /\ ~failed
    /\ Len(actors) >= 1
    /\ obs.triggered # 0
    /\ level.tiles[obs.triggered].flips_in =
          level.tiles[obs.triggered].activation_time
    /\ \E i \in DOMAIN level.tiles : level.tiles[i].activation_time < 0

---------------------------------------------------------------------------
(* What the rays of compute_sight() mark *)

\* the tiles of a ray up to and including the first one that cannot be
\* seen through
UpToOpaque(lv, cells) ==
    {cells[k] : k \in {n \in 1..Len(cells) :
                         \A j \in 1..(n - 1) :
                            see_through(lv, cells[j][1], cells[j][2])}}

\* C19: the eight rays of an iteration of compute_sight() that completes
\* mark, each of them, the tiles from the observer's up to and including
\* the first tile that cannot be seen through, and nothing beyond it.
C19_RayStopsAtOpaque ==
    [][sight'.status # "failed" =>
         sight'.tiles =
           sight.tiles \cup
             UNION {UpToOpaque(level,
                               BresenhamCells(sight.atx, sight.aty,
                                              RingEnds(sight)[e][1],
                                              RingEnds(sight)[e][2])) :
                    e \in 1..8}]_vars

\* C19 happens: compute_sight() completed, a tile in the observer's row
\* that cannot be seen through is marked, and the tile behind it, nearer
\* than the end of the ray along the row, is not
C19_TileBehindOpaqueUnseen ==
    /\ sight.status = "done"
    /\ \E b \in sight.tiles :
          /\ b[2] = sight.aty /\ b[1] # sight.atx
          /\ ~see_through(level, b[1], b[2])
          /\ Abs(b[1] - sight.atx) + 1 < sight.radius
          /\ InLevel(level, b[1] + Sgn(b[1] - sight.atx), b[2])
          /\ <<b[1] + Sgn(b[1] - sight.atx), b[2]>> \notin sight.tiles

\* C20: when compute_sight() has completed, the observer's own tile is
\* set in the table, whatever the radius.
C20_OwnTileSeen ==
    sight.status = "done" => <<sight.atx, sight.aty>> \in sight.tiles

---------------------------------------------------------------------------
(* draw_level(): sight_get() asked for the tiles of the level, on the
   tables compute_sight() returns *)

\* compute_sight(): the circle walk to its end
RECURSIVE SightWalk(_, _)
SightWalk(lv, st) ==
    IF st.status # "run" THEN st ELSE SightWalk(lv, SightRing(lv, st))

compute_sight(lv, actor, radius) == SightWalk(lv, SightInit(lv, actor, radius))

\* sight->tiles[k]: junk is what a read outside the array yields
SightCell(st, k, junk) ==
    IF k >= 0 /\ k < st.width * st.height
    THEN <<st.ox + (k % st.width), st.oy + (k \div st.width)>> \in st.tiles
    ELSE junk

\* sight_get(): the answer and the indices of sight->tiles it reads, the
\* tests of the return expression taken from left to right as || and &&
\* evaluate them.  The fourth test compares sy with width - 1 and reads
\* the entry sy * width + sx - 1.
sight_get(st, x, y, junk) ==
    LET sx == x - st.ox
        sy == y - st.oy
        k == sy * st.width + sx
        own == SightCell(st, k, junk)
        left == sx = 0 \/ SightCell(st, k - 1, junk)
        right == sx = st.width - 1 \/ SightCell(st, k + 1, junk)
        up == sy = 0 \/ SightCell(st, k - st.width, junk)
        last == sy = st.width - 1 \/ SightCell(st, k - 1, junk)
    IN IF sx < 0 \/ sy < 0 \/ sx >= st.width \/ sy >= st.height
       THEN [answer |-> FALSE, reads |-> {}]
       ELSE [answer |-> own \/ (left /\ right /\ up /\ last),
             reads |->
               {k} \cup
               (IF ~own /\ sx # 0 THEN {k - 1} ELSE {}) \cup
               (IF ~own /\ left /\ sx # st.width - 1 THEN {k + 1} ELSE {})
               \cup
               (IF ~own /\ left /\ right /\ sy # 0
                THEN {k - st.width} ELSE {}) \cup
               (IF ~own /\ left /\ right /\ up /\ sy # st.width - 1
                THEN {k - 1} ELSE {})]

\* main(): the table of a frame, for which compute_sight() returned
InitLook ==
    \E rows \in GridRows :
       \E at \in Floor(LoadLevel(rows)), radius \in 0..MaxSightRadius :
          /\ level = LoadLevel(rows)
          /\ frame = 0
          /\ player = init_actor(pc(at[1]), pc(at[2]), 0, ACTOR_R)
          /\ actors = << >>
          /\ actions = {}
          /\ marks = << >>
          /\ failed = FALSE
          /\ obs = NoObs
          /\ hist = NoHist(LoadLevel(rows))
          /\ input = NoInput
          /\ search = NoSearch
          /\ sight = compute_sight(LoadLevel(rows),
                                   init_actor(pc(at[1]), pc(at[2]), 0,
                                              ACTOR_R),
                                   radius)
          /\ sight.status = "done"

\* draw_level(): sight_get() for one tile of the level; input keeps the
\* tile, the answer and the indices read
Look ==
    /\ input = NoInput
    /\ \E x \in 0..(level.width - 1), y \in 0..(level.height - 1),
          junk \in BOOLEAN :
         \E g \in {sight_get(sight, x, y, junk)} :
            input' = [scenario |-> "look", x |-> x, y |-> y,
                      answer |-> g.answer, reads |-> g.reads]
    /\ UNCHANGED <<level, frame, player, actors, actions, marks, failed,
                   obs, hist, search, sight>>

NextLook == Look

SpecLook == InitLook /\ [][NextLook]_vars

\* whether the tile (x, y) is set in the table
Marked(x, y) == <<x, y>> \in sight.tiles

\* whether the tile (x, y) lies in the window of the table
InWindow(x, y) == InSight(sight, x, y)

\* C21: for a tile in the window sight_get() answers true exactly when the
\* tile is marked or each of its left, right, upper and lower neighbours
\* that lies in the window is marked; for a tile outside it answers false.
C21_SeenOrSurrounded ==
    input.scenario = "look" =>
       input.answer =
         (/\ InWindow(input.x, input.y)
          /\ \/ Marked(input.x, input.y)
             \/ \A n \in {<<input.x - 1, input.y>>, <<input.x + 1, input.y>>,
                           <<input.x, input.y - 1>>, <<input.x, input.y + 1>>} :
                   InWindow(n[1], n[2]) => Marked(n[1], n[2]))

\* C28: every index sight_get() reads lies in 0 .. width * height - 1.
C28_ReadsInsideTable ==
    input.scenario = "look" =>
       \A k \in input.reads : k >= 0 /\ k < sight.width * sight.height

---------------------------------------------------------------------------
(* collide_level_actor() on an actor at one blocking tile: the tile (1, 1)
   of a level of 3 x 3 tiles, the actor's centre on, near and away from
   the boundaries and the centre lines of the tile *)

PushRows ==
    << <<" ", " ", " ">>,
       <<" ", "#", " ">>,
       <<" ", " ", " ">> >>

\* the number of passes followed
MaxPushPasses == 2

\* the coordinates tried, relative to the tile from lo to lo + TILE_SIZE
\* and a radius r
Around(lo, r) ==
    {lo - r, lo - r + 1, lo - r \div 2, lo - 1, lo, lo + 1,
     lo + TILE_SIZE \div 2 - 1, lo + TILE_SIZE \div 2,
     lo + TILE_SIZE \div 2 + 1,
     lo + TILE_SIZE - 1, lo + TILE_SIZE, lo + TILE_SIZE + 1,
     lo + TILE_SIZE + r \div 2, lo + TILE_SIZE + r - 1, lo + TILE_SIZE + r}

InitPush ==
    \E x \in Around(pc_corner(1), ACTOR_R), y \in Around(pc_corner(1), ACTOR_R) :
       /\ level = LoadLevel(PushRows)
       /\ frame = 0
       /\ player = init_actor(x, y, 0, ACTOR_R)
       /\ actors = << >>
       /\ actions = {}
       /\ marks = << >>
       /\ failed = FALSE
       /\ obs = NoObs
       /\ hist = NoHist(LoadLevel(PushRows))
       /\ input = NoInput
       /\ search = NoSearch
       /\ sight = NoSight

\* one call of collide_level_actor() for the actor; input keeps the actor
\* before the first call (start) and the region find_voronoi() gives for
\* it, the actor before this call and what this call returned
PushPass ==
    /\ ~failed
    /\ frame < MaxPushPasses
    /\ \E st \in {collide_level_actor(level, player)} :
         /\ failed' = st.failed
         /\ player' = st.actor
         /\ input' = [scenario |-> "push",
                      start |-> IF frame = 0 THEN player ELSE input.start,
                      region |-> IF frame = 0
                                 THEN find_voronoi(1, 1, player.x, player.y)
                                 ELSE input.region,
                      before |-> player,
                      moved |-> st.moved]
    /\ frame' = frame + 1
    /\ UNCHANGED <<level, actors, actions, marks, obs, hist, search, sight>>

NextPush == PushPass

SpecPush == InitPush /\ [][NextPush]_vars

\* whether the box of an actor at (x, y) overlaps the tile (1, 1)
OnTile(x, y, r) ==
    /\ x + r > pc_corner(1) /\ x - r < pc_corner(1) + TILE_SIZE
    /\ y + r > pc_corner(1) /\ y - r < pc_corner(1) + TILE_SIZE

\* C22: an actor whose box overlaps the one blocking tile, with its centre
\* in an edge region of the tile, is moved by one pass along the axis of
\* that edge only, away from the tile; afterwards the distance from its
\* centre to the boundary on that side is the radius or the radius plus
\* one; and the next pass moves nothing.
C22_EdgePushIsFlush ==
    (/\ input.scenario = "push"
     /\ OnTile(input.start.x, input.start.y, input.start.radius)
     /\ input.region \in {2, 4, 6, 8})
    => /\ ~failed
       /\ frame = 1 =>
             /\ input.moved
             /\ input.region = 2 =>
                   /\ player.x = input.start.x /\ player.y < input.start.y
                   /\ pc_corner(1) - player.y \in
                         {player.radius, player.radius + 1}
             /\ input.region = 8 =>
                   /\ player.x = input.start.x /\ player.y > input.start.y
                   /\ player.y - (pc_corner(1) + TILE_SIZE) \in
                         {player.radius, player.radius + 1}
             /\ input.region = 4 =>
                   /\ player.y = input.start.y /\ player.x < input.start.x
                   /\ pc_corner(1) - player.x \in
                         {player.radius, player.radius + 1}
             /\ input.region = 6 =>
                   /\ player.y = input.start.y /\ player.x > input.start.x
                   /\ player.x - (pc_corner(1) + TILE_SIZE) \in
                         {player.radius, player.radius + 1}
       /\ frame = 2 => ~input.moved /\ player = input.before

\* C22 happens: an actor that overlapped the tile from the left, its
\* centre in the left edge region and not on the tile's centre line, was
\* pushed, and the second pass has run
C22_PushedOffLeftEdge ==
    /\ input.scenario = "push" /\ frame = 2 /\ ~failed
    /\ input.region = 4
    /\ OnTile(input.start.x, input.start.y, input.start.radius)
    /\ input.start.y # pc(1)
    /\ player.x < input.start.x

\* C26: find_voronoi() gives a corner region exactly when the centre lies
\* strictly beyond a vertical and a horizontal boundary of the tile;
\* otherwise the edge region of the axis with the larger offset from the
\* tile's centre, with the top or bottom edge when the two offsets are
\* equal; and for an actor whose box overlaps the blocking tile the sign
\* assertion of collide_level_actor() for that region holds.
C26_RegionOfCentre ==
    input.scenario = "push" =>
       \E v \in {find_voronoi(1, 1, input.before.x, input.before.y)} :
          \E dx \in {input.before.x - pc(1)}, dy \in {input.before.y - pc(1)} :
             /\ v \in {1, 3, 7, 9} <=>
                   (Abs(dx) > TILE_SIZE \div 2 /\ Abs(dy) > TILE_SIZE \div 2)
             /\ v = 1 => dx < 0 /\ dy < 0
             /\ v = 3 => dx > 0 /\ dy < 0
             /\ v = 7 => dx < 0 /\ dy > 0
             /\ v = 9 => dx > 0 /\ dy > 0
             /\ v \in {4, 6} => Abs(dx) > Abs(dy)
             /\ v \in {2, 8} => Abs(dx) <= Abs(dy)
             /\ v = 4 => dx <= 0
             /\ v = 6 => dx > 0
             /\ v = 2 => dy <= 0
             /\ v = 8 => dy > 0
             /\ v \in {1, 2, 3, 4, 6, 7, 8, 9}
             /\ OnTile(input.before.x, input.before.y, input.before.radius)
                   => ~failed

\* C26 happens: a pass for an actor whose box overlaps the tile and whose
\* centre is equally far from the tile's centre on both axes, inside the
\* boundaries
C26_TieInsideTile ==
    /\ input.scenario = "push" /\ ~failed
    /\ OnTile(input.before.x, input.before.y, input.before.radius)
    /\ Abs(input.before.x - pc(1)) = Abs(input.before.y - pc(1))
    /\ input.before.x # pc(1)
    /\ Abs(input.before.x - pc(1)) <= TILE_SIZE \div 2
    /\ input.moved

---------------------------------------------------------------------------
(* collide_actor_actor() on two actors of the radius main() uses, the
   second one at offsets from the first that make them coincide, overlap,
   touch and stand apart *)

\* the offsets tried on each axis, for the sum reach of the two radii
BumpOffsets(reach) ==
    {-reach, 1 - reach, -(reach \div 2), -1, 0, 1, reach \div 2, reach - 1,
     reach}

InitBump ==
    \E dx \in BumpOffsets(2 * ACTOR_R), dy \in BumpOffsets(2 * ACTOR_R) :
       /\ level = LoadLevel(PushRows)
       /\ frame = 0
       /\ player = init_actor(pc(1), pc(1), 0, ACTOR_R)
       /\ actors = <<init_actor(pc(1) + dx, pc(1) + dy, 0, ACTOR_R)>>
       /\ actions = {}
       /\ marks = << >>
       /\ failed = FALSE
       /\ obs = NoObs
       /\ hist = NoHist(LoadLevel(PushRows))
       /\ input = NoInput
       /\ search = NoSearch
       /\ sight = NoSight

\* one call collide_actor_actor(player, guard); input keeps the two actors
\* before the call and what was returned
Bump ==
    /\ frame = 0
    /\ \E g \in {collide_actor_actor(player, actors[1])} :
         /\ failed' = g.failed
         /\ player' = g.a
         /\ actors' = <<g.b>>
         /\ input' = [scenario |-> "bump", a |-> player, b |-> actors[1],
                      moved |-> g.moved]
    /\ frame' = 1
    /\ UNCHANGED <<level, actions, marks, obs, hist, search, sight>>

NextBump == Bump

SpecBump == InitBump /\ [][NextBump]_vars

\* C23: collide_actor_actor() moves two overlapping actors of equal radius
\* r by opposite displacements, the second one away from the first, so
\* that the sums of their coordinates stay; afterwards the distance of
\* their centres is at least 2r, and at most 2r + 2 if they stood on one
\* axis; two actors that do not overlap are left alone and false is
\* returned.
C23_PushedApartEvenly ==
    input.scenario = "bump" =>
       \E dx \in {input.b.x - input.a.x}, dy \in {input.b.y - input.a.y},
          ex \in {actors[1].x - player.x}, ey \in {actors[1].y - player.y},
          reach \in {input.a.radius + input.b.radius} :
          IF dx * dx + dy * dy < reach * reach
          THEN /\ ~failed
               /\ input.moved
               /\ player.x + actors[1].x = input.a.x + input.b.x
               /\ player.y + actors[1].y = input.a.y + input.b.y
               /\ Sgn(ex) = Sgn(dx) /\ Sgn(ey) = Sgn(dy)
               /\ Abs(ex) >= Abs(dx) /\ Abs(ey) >= Abs(dy)
               /\ ex * ex + ey * ey >= reach * reach
               /\ dy = 0 => Abs(ex) <= reach + 2
               /\ dx = 0 => Abs(ey) <= reach + 2
          ELSE /\ ~failed
               /\ ~input.moved
               /\ player = input.a /\ actors[1] = input.b

---------------------------------------------------------------------------
(* A guard without a target *)

\* C24: in a tick in which a guard has no target (none before the tick
\* and none when its idle turn is reached) and a pending heading, its
\* heading changes by at most ACTOR_TURN degrees and the arc between the
\* heading and the pending heading, at most 180 degrees, shrinks by
\* exactly that change, by ACTOR_TURN or to 0, so that the pending heading
\* is reached within 60 ticks; once the heading equals the pending
\* heading the pending heading is cleared and the heading stays; a guard
\* without a target and without a pending heading keeps its heading; the
\* heading is always in 0..359.
C24_IdleTurnTowardsPending ==
    \A i \in 1..Len(obs.guards) :
       LET o == obs.guards[i]
           Arc(a, b) == IF (a - b) % 360 < (b - a) % 360
                        THEN (a - b) % 360 ELSE (b - a) % 360
       IN /\ o.after.angle \in 0..359
          /\ (o.before.tx = -1 /\ o.before.ty = -1 /\ ~o.seeks) =>
                IF o.before.t_angle = -1
                THEN o.after.angle = o.before.angle /\ o.after.t_angle = -1
                ELSE /\ Arc(o.before.angle, o.before.t_angle) <=
                           (360 \div (2 * ACTOR_TURN)) * ACTOR_TURN
                     /\ Arc(o.after.angle, o.before.angle) <= ACTOR_TURN
                     /\ Arc(o.after.angle, o.before.t_angle) =
                           Arc(o.before.angle, o.before.t_angle) -
                           Arc(o.after.angle, o.before.angle)
                     /\ \/ Arc(o.after.angle, o.before.angle) = ACTOR_TURN
                        \/ o.after.angle = o.before.t_angle
                     /\ o.after.t_angle =
                           (IF o.before.angle = o.before.t_angle THEN -1
                            ELSE o.before.t_angle)
                     /\ o.after.x = o.before.x /\ o.after.y = o.before.y

\* C24 happens: a guard without a target whose heading had reached the
\* pending heading, which was cleared in this tick
C24_PendingHeadingReached ==
    /\ ~failed /\ frame = obs.fr + 1
    /\ \E i \in 1..Len(obs.guards) :
          /\ obs.guards[i].before.tx = -1 /\ obs.guards[i].before.ty = -1
          /\ ~obs.guards[i].seeks
          /\ obs.guards[i].before.t_angle # -1
          /\ obs.guards[i].before.t_angle = obs.guards[i].before.angle
          /\ obs.guards[i].after.t_angle = -1

---------------------------------------------------------------------------
(* The end points of the rays of compute_sight() *)

\* C25: with a radius of at least 1 and no tile within the radius of the
\* observer that cannot be seen through, the eight rays of an iteration of
\* compute_sight() that completes leave the tiles they are aimed at, as far
\* as these lie in the level, set in the table.
C25_RayMarksItsEndPoint ==
    [][(/\ sight.status = "run"
        /\ sight'.status # "failed"
        /\ sight.radius >= 1
        /\ \A x \in 0..(level.width - 1), y \in 0..(level.height - 1) :
              (Abs(x - sight.atx) <= sight.radius /\
               Abs(y - sight.aty) <= sight.radius) => see_through(level, x, y))
       => \A e \in 1..8 :
             InLevel(level, RingEnds(sight)[e][1], RingEnds(sight)[e][2])
                => RingEnds(sight)[e] \in sight'.tiles]_vars

---------------------------------------------------------------------------
(* The end of a search *)

\* a_star() is a loop that runs on until it returns: weak fairness of
\* NextPath, WF_vars(NextPath), with ENABLED <<NextPath>>_vars written out
\* as what it amounts to, search.status = "run"
SpecPathFair ==
    SpecPath /\ ([]<>(search.status # "run") \/ []<><<NextPath>>_vars)

\* C27: every search ends: the goal is taken from the open list and the
\* from-links lead from it back to the start, or the open list runs empty,
\* or an assertion ends the program.
C27_SearchEnds ==
    <>(search.status \in {"found", "none", "failed"})

\* C27 happens: a search that looked at more tiles than its path has and
\* returned a path of five tiles or more that begins next to the start
C27_FoundAfterDetour ==
    /\ search.status = "found"
    /\ Len(search.path) >= 5
    /\ search.steps > Len(search.path)
    /\ Abs(search.path[1][1] - tc(actors[1].x)) <= 1
    /\ Abs(search.path[1][2] - tc(actors[1].y)) <= 1

---------------------------------------------------------------------------
(* Target and deadline *)

\* C29: after every tick no guard has a target and a give-up deadline at
\* once: a guard is idle (neither), on its way (a target, no deadline) or
\* giving up (a deadline, no target).
C29_TargetOrDeadline ==
    \A i \in 1..Len(actors) :
       ~(/\ has_target(actors[i]) \/ actors[i].tx >= 0 \/ actors[i].ty >= 0
         /\ actors[i].give_up_at # -1)

\* C29 happens: a guard that had a target before the tick ends it with a
\* deadline and no target
C29_ArrivedAndWaiting ==
    \E i \in 1..Len(actors) :
       /\ i \in DOMAIN obs.guards
       /\ has_target(obs.guards[i].seeker)
       /\ obs.guards[i].seeker.give_up_at = -1
       /\ actors[i].give_up_at = obs.guards[i].fr + GIVE_UP_DELAY
       /\ actors[i].tx = -1 /\ actors[i].ty = -1

---------------------------------------------------------------------------
(* A guard that lost the player *)

\* C30: a guard that goes through a tick without line-of-sight, without
\* target and without deadline, before the tick and after it, is at home:
\* within the distance from its home position at which seek_target()
\* reports arrival.  No guard is left idle away from home.
C30_IdleGuardIsHome ==
    \A i \in DOMAIN obs.guards :
       (/\ ~obs.guards[i].los
        /\ obs.guards[i].before.tx = -1 /\ obs.guards[i].before.ty = -1
        /\ obs.guards[i].before.give_up_at = -1
        /\ actors[i].tx = -1 /\ actors[i].ty = -1
        /\ actors[i].give_up_at = -1)
       => d(actors[i].x, actors[i].y, actors[i].base_x, actors[i].base_y)
             < actors[i].radius + ACTOR_STEP

=============================================================================
